---- MODULE Spec2Model ----
(***************************************************************************)
(* A model of src/election-map.js (class ElectionMap): the lazy,           *)
(* per-year and per-state aggregation of county-level election rows, the   *)
(* reconciliation of topology county ids with the stored results and the   *)
(* memoisation of the lookups.                                             *)
(*                                                                         *)
(* Text that the code takes apart (county ids, vote counts, candidate and  *)
(* party labels) is a sequence of one-character strings, so that           *)
(* parseInt, substring, toUpperCase, trim and includes are computed as     *)
(* JavaScript computes them. Labels that the code only compares (year,     *)
(* state, mode, county name) are plain strings. A JavaScript Map is a      *)
(* sequence of [k, v] entries in insertion order.                          *)
(***************************************************************************)
EXTENDS Integers, Sequences, FiniteSets, TLC

(***************************************************************************)
(* JavaScript text primitives                                              *)
(***************************************************************************)
UpperLetters ==
  <<"A","B","C","D","E","F","G","H","I","J","K","L","M",
    "N","O","P","Q","R","S","T","U","V","W","X","Y","Z">>

LowerLetters ==
  <<"a","b","c","d","e","f","g","h","i","j","k","l","m",
    "n","o","p","q","r","s","t","u","v","w","x","y","z">>

DigitChars == <<"0","1","2","3","4","5","6","7","8","9">>

IsDigit(c) == \E i \in 1..10 : DigitChars[i] = c

DigitVal(c) == (CHOOSE i \in 1..10 : DigitChars[i] = c) - 1

IsSpace(c) == c = " "

UpperChar(c) ==
  IF \E i \in 1..26 : LowerLetters[i] = c
  THEN UpperLetters[CHOOSE i \in 1..26 : LowerLetters[i] = c]
  ELSE c

LowerChar(c) ==
  IF \E i \in 1..26 : UpperLetters[i] = c
  THEN LowerLetters[CHOOSE i \in 1..26 : UpperLetters[i] = c]
  ELSE c

\* String.prototype.toUpperCase / toLowerCase
ToUpperCase(t) == [i \in 1..Len(t) |-> UpperChar(t[i])]

ToLowerCase(t) == [i \in 1..Len(t) |-> LowerChar(t[i])]

\* String.prototype.trim
Trim(t) ==
  LET keep == {i \in 1..Len(t) : ~IsSpace(t[i])}
  IN  IF keep = {} THEN <<>>
      ELSE LET lo == CHOOSE i \in keep : \A j \in keep : i <= j
               hi == CHOOSE i \in keep : \A j \in keep : j <= i
           IN  SubSeq(t, lo, hi)

\* String.prototype.includes
Includes(t, pat) ==
  \E i \in 1..(Len(t) - Len(pat) + 1) : SubSeq(t, i, i + Len(pat) - 1) = pat

\* String.prototype.substring(from) with a zero-based index
SubstringFrom(t, from) ==
  IF from >= Len(t) THEN <<>> ELSE SubSeq(t, from + 1, Len(t))

\* String.prototype.substring(from, to) with zero-based indexes
Substring(t, from, to) ==
  LET hi == IF to > Len(t) THEN Len(t) ELSE to
  IN  IF from >= hi THEN <<>> ELSE SubSeq(t, from + 1, hi)

RECURSIVE DropSpaces(_)
DropSpaces(t) ==
  IF t # <<>> /\ IsSpace(Head(t)) THEN DropSpaces(Tail(t)) ELSE t

RECURSIVE DigitPrefixValue(_, _, _)
\* [n |-> number of leading digits read, val |-> their decimal value]
DigitPrefixValue(t, n, val) ==
  IF t # <<>> /\ IsDigit(Head(t))
  THEN DigitPrefixValue(Tail(t), n + 1, 10 * val + DigitVal(Head(t)))
  ELSE [n |-> n, val |-> val]

\* parseInt(text): leading blanks, an optional sign, then the longest run of
\* digits; NaN when there is no digit to read.
ParseInt(t) ==
  LET s    == DropSpaces(t)
      neg  == s # <<>> /\ Head(s) = "-"
      body == IF s # <<>> /\ Head(s) \in {"-", "+"} THEN Tail(s) ELSE s
      p    == DigitPrefixValue(body, 0, 0)
  IN  IF p.n = 0 THEN [nan |-> TRUE, val |-> 0]
      ELSE [nan |-> FALSE, val |-> IF neg THEN 0 - p.val ELSE p.val]

RECURSIVE NatToText(_)
NatToText(n) ==
  IF n < 10 THEN <<DigitChars[n + 1]>>
  ELSE NatToText(n \div 10) \o <<DigitChars[(n % 10) + 1]>>

\* Number.prototype.toString of the value parseInt returned
NumberToString(p) ==
  IF p.nan THEN <<"N","a","N">>
  ELSE IF p.val < 0 THEN <<"-">> \o NatToText(0 - p.val)
  ELSE NatToText(p.val)

(***************************************************************************)
(* JavaScript Map: entries in insertion order                              *)
(***************************************************************************)
MapHas(m, k) == \E i \in 1..Len(m) : m[i].k = k

MapIndex(m, k) == CHOOSE i \in 1..Len(m) : m[i].k = k

MapGet(m, k) == m[MapIndex(m, k)].v

\* Map.prototype.set: an existing key keeps its place
MapSet(m, k, v) ==
  IF MapHas(m, k) THEN [m EXCEPT ![MapIndex(m, k)].v = v]
  ELSE Append(m, [k |-> k, v |-> v])

MapKeys(m) == [i \in 1..Len(m) |-> m[i].k]

\* map.get(k) || dflt, for a map whose values are maps or numbers
MapGetOr(m, k, dflt) == IF MapHas(m, k) THEN MapGet(m, k) ELSE dflt

(***************************************************************************)
(* Text literals of the code                                               *)
(***************************************************************************)
REPUBLICAN == <<"R","E","P","U","B","L","I","C","A","N">>

DEMOCRAT == <<"D","E","M","O","C","R","A","T">>

UNKNOWN == <<"U","N","K","N","O","W","N">>

TxtRepublican == <<"r","e","p","u","b","l","i","c","a","n">>

TxtGop == <<"g","o","p">>

TxtDemocrat == <<"d","e","m","o","c","r","a","t">>

TxtTotalVotesCast ==
  <<"T","O","T","A","L"," ","V","O","T","E","S"," ","C","A","S","T">>

TxtOvervote == <<"O","V","E","R","V","O","T","E">>

TxtUndervote == <<"U","N","D","E","R","V","O","T","E">>

TxtOverVotes == <<"O","V","E","R"," ","V","O","T","E","S">>

TxtUnderVotes == <<"U","N","D","E","R"," ","V","O","T","E","S">>

\* The borough codes of alaskaFipsMapping, in the order of its keys
\* '2001' .. '2032'; each value is written '0' followed by the number.
AlaskaBoroughs ==
  <<2240, 2290, 2180, 2188, 2185, 2090, 2068, 2170, 2020, 2261,
    2122, 2150, 2164, 2060, 2070, 2050, 2270, 2013, 2016, 2220,
    2100, 2110, 2230, 2282, 2275, 2195, 2198, 2130, 2105, 2063,
    2066, 2158>>

\* this.alaskaFipsMapping: district code -> borough code
alaskaFipsMapping ==
  [i \in 1..Len(AlaskaBoroughs) |->
     [k |-> NatToText(2000 + i), v |-> <<"0">> \o NatToText(AlaskaBoroughs[i])]]

\* this.georgiaFipsMapping: topology id -> election-data id
georgiaFipsMapping ==
  << [k |-> <<"1","3","2","1","1">>, v |-> <<"1","3","2","0","9">>] >>

\* The modes the component filter names
ComponentModes ==
  {"EARLY VOTING", "LATE EARLY VOTING", "ELECTION DAY", "PROVISIONAL",
   "ABSENTEE", "MAIL-IN", "ABSENTEE BY MAIL"}

(***************************************************************************)
(* Party Normalizer and Winner Resolver                                    *)
(***************************************************************************)
\* Mutant of normalizeParty: every other party is lumped into one label
normalizeParty_Other(party) ==
  LET partyLower == ToLowerCase(party)
  IN  IF Includes(partyLower, TxtRepublican) \/ Includes(partyLower, TxtGop)
      THEN REPUBLICAN
      ELSE IF Includes(partyLower, TxtDemocrat) THEN DEMOCRAT
      ELSE <<"O","T","H","E","R">>

normalizeParty(party) ==
  LET partyLower == ToLowerCase(party)
  IN  IF Includes(partyLower, TxtRepublican) \/ Includes(partyLower, TxtGop)
      THEN REPUBLICAN
      ELSE IF Includes(partyLower, TxtDemocrat) THEN DEMOCRAT
      ELSE Trim(ToUpperCase(party))

RECURSIVE WinnerScan_LastMaximum(_, _, _, _)
\* Mutant of WinnerScan: a party that equals the maximum so far takes over
WinnerScan_LastMaximum(votes, i, maxVotes, winner) ==
  IF i > Len(votes) THEN winner
  ELSE IF votes[i].v >= maxVotes
       THEN WinnerScan_LastMaximum(votes, i + 1, votes[i].v, votes[i].k)
       ELSE WinnerScan_LastMaximum(votes, i + 1, maxVotes, winner)

RECURSIVE WinnerScan(_, _, _, _)
WinnerScan(votes, i, maxVotes, winner) ==
  IF i > Len(votes) THEN winner
  ELSE IF votes[i].v > maxVotes
       THEN WinnerScan(votes, i + 1, votes[i].v, votes[i].k)
       ELSE WinnerScan(votes, i + 1, maxVotes, winner)

\* determineWinner(votes): votes is a Map party -> count
\* Mutant of determineWinner: the scan starts from a maximum of one vote
determineWinner_FromOne(votes) == WinnerScan(votes, 1, 1, UNKNOWN)

determineWinner(votes) == WinnerScan(votes, 1, 0, UNKNOWN)

(***************************************************************************)
(* Record Aggregator: the row callback of processElectionData and of       *)
(* processStateElectionData (the two callbacks are the same code)          *)
(***************************************************************************)
\* The row is one the callback returns from before touching rawData
\* Mutant of SkipRow: only the header row and the rows without county id or
\* without a positive vote count are skipped, whatever the candidate label
SkipRow_AnyCandidate(d) ==
  LET votes == ParseInt(d.candidatevotes)
  IN  \/ d.year = "year"
      \/ d.county_fips = <<>>
      \/ votes.nan \/ votes.val = 0
      \/ votes.val < 0

SkipRow(d) ==
  LET votes          == ParseInt(d.candidatevotes)
      candidateUpper == Trim(ToUpperCase(d.candidate))
  IN  \/ d.year = "year"
      \/ d.county_fips = <<>>
      \/ votes.nan \/ votes.val = 0
      \/ votes.val < 0
      \/ d.candidate = TxtTotalVotesCast
      \/ d.candidate = <<>>
      \/ candidateUpper = TxtOvervote \o <<"S">>
      \/ candidateUpper = TxtUndervote \o <<"S">>
      \/ candidateUpper = TxtOverVotes
      \/ candidateUpper = TxtUnderVotes
      \/ Includes(candidateUpper, TxtOvervote)
      \/ Includes(candidateUpper, TxtUndervote)

\* Mutant of RowCounty: the town codes are kept whole
RowCounty_NoTruncation(d) == d.county_fips

\* The county key a row is accumulated under (Rhode Island town codes are cut)
RowCounty(d) ==
  IF d.state = "RHODE ISLAND" /\ d.county_fips # <<>> /\ Len(d.county_fips) = 10
  THEN Substring(d.county_fips, 0, 5)
  ELSE d.county_fips

\* The mode field of the rows of a table without a mode column (undefined)
MissingMode == "(no mode column)"

\* Mutant of RowMode: the mode of the row is taken as it is
RowMode_AsGiven(d) == d.mode

\* d.mode || 'TOTAL'
RowMode(d) == IF d.mode = "" \/ d.mode = MissingMode THEN "TOTAL" ELSE d.mode

\* Mutant of RowCallback: rows with a vote count of zero are accumulated
RowCallback_ZeroVotesKept(rawData, d) ==
  IF SkipRow(d) /\ d.candidatevotes # <<"0">> THEN rawData
  ELSE
    LET party      == normalizeParty(d.party)
        votes      == ParseInt(d.candidatevotes).val
        mode       == RowMode(d)
        county     == RowCounty(d)
        yearMap    == MapGetOr(rawData, d.year, <<>>)
        stateMap   == MapGetOr(yearMap, d.state, <<>>)
        countyData == MapGetOr(stateMap, county,
                               [modes |-> <<>>, name |-> d.county_name])
        modeMap    == MapGetOr(countyData.modes, mode, <<>>)
        count      == MapGetOr(modeMap, party, 0)
        countyNew  == [countyData EXCEPT
                         !.modes = MapSet(@, mode, MapSet(modeMap, party, count + votes))]
    IN  MapSet(rawData, d.year, MapSet(yearMap, d.state, MapSet(stateMap, county, countyNew)))

\* One call of the forEach callback: rawData after row d
RowCallback(rawData, d) ==
  IF SkipRow(d) THEN rawData
  ELSE
    LET party      == normalizeParty(d.party)
        votes      == ParseInt(d.candidatevotes).val
        mode       == RowMode(d)
        county     == RowCounty(d)
        yearMap    == MapGetOr(rawData, d.year, <<>>)
        stateMap   == MapGetOr(yearMap, d.state, <<>>)
        countyData == MapGetOr(stateMap, county,
                               [modes |-> <<>>, name |-> d.county_name])
        modeMap    == MapGetOr(countyData.modes, mode, <<>>)
        count      == MapGetOr(modeMap, party, 0)
        countyNew  == [countyData EXCEPT
                         !.modes = MapSet(@, mode, MapSet(modeMap, party, count + votes))]
    IN  MapSet(rawData, d.year, MapSet(yearMap, d.state, MapSet(stateMap, county, countyNew)))

RECURSIVE AccumulateFrom(_, _, _)
AccumulateFrom(rawData, csvData, i) ==
  IF i > Len(csvData) THEN rawData
  ELSE AccumulateFrom(RowCallback(rawData, csvData[i]), csvData, i + 1)

\* csvData.forEach(callback) over an empty rawData
Accumulate(csvData) == AccumulateFrom(<<>>, csvData, 1)

(***************************************************************************)
(* Mode Resolver                                                           *)
(***************************************************************************)
\* Mutant of ModesToSum: the component modes are always filtered out
ModesToSum_NoComponents(modes) ==
  SelectSeq(MapKeys(modes), LAMBDA mode : mode \notin ComponentModes)

\* modesToSum: the filter of the else branch
ModesToSum(modes) ==
  SelectSeq(MapKeys(modes),
            LAMBDA mode : \/ mode \notin ComponentModes
                          \/ (~MapHas(modes, "TOTAL VOTES") /\ ~MapHas(modes, "TOTAL")))

RECURSIVE AddMode_Overwrite(_, _, _)
\* Mutant of AddMode: a mode's votes replace the party's votes so far
AddMode_Overwrite(finalVotes, modeMap, j) ==
  IF j > Len(modeMap) THEN finalVotes
  ELSE AddMode_Overwrite(MapSet(finalVotes, modeMap[j].k, modeMap[j].v),
                         modeMap, j + 1)

RECURSIVE AddMode(_, _, _)
\* modes.get(mode).forEach: finalVotes[party] = (finalVotes[party] || 0) + votes
AddMode(finalVotes, modeMap, j) ==
  IF j > Len(modeMap) THEN finalVotes
  ELSE AddMode(MapSet(finalVotes, modeMap[j].k,
                      MapGetOr(finalVotes, modeMap[j].k, 0) + modeMap[j].v),
               modeMap, j + 1)

RECURSIVE SumModes(_, _, _, _)
SumModes(finalVotes, modes, toSum, i) ==
  IF i > Len(toSum) THEN finalVotes
  ELSE SumModes(AddMode(finalVotes, MapGet(modes, toSum[i]), 1), modes, toSum, i + 1)

\* Mutant of ResolveModes: every mode is summed, aggregate rows included
ResolveModes_SumAll(modes) == SumModes(<<>>, modes, MapKeys(modes), 1)

\* finalVotes of one county: TOTAL VOTES, else TOTAL, else the summed modes
ResolveModes(modes) ==
  IF MapHas(modes, "TOTAL VOTES") THEN MapGet(modes, "TOTAL VOTES")
  ELSE IF MapHas(modes, "TOTAL") THEN MapGet(modes, "TOTAL")
  ELSE SumModes(<<>>, modes, ModesToSum(modes), 1)

\* candidateArray: one entry per party of finalVotes
CandidateArray(finalVotes, name) ==
  [i \in 1..Len(finalVotes) |->
     [candidate |-> finalVotes[i].k, party |-> finalVotes[i].k,
      votes |-> finalVotes[i].v, countyName |-> name, mode |-> "PROCESSED"]]

(***************************************************************************)
(* processElectionData, second half: electionData[year][state][county]     *)
(***************************************************************************)
RECURSIVE StoreCounties(_, _, _)
StoreCounties(stored, stateData, i) ==
  IF i > Len(stateData) THEN stored
  ELSE StoreCounties(
         MapSet(stored, stateData[i].k,
                CandidateArray(ResolveModes(stateData[i].v.modes), stateData[i].v.name)),
         stateData, i + 1)

RECURSIVE StoreStates(_, _, _)
StoreStates(stored, yearData, i) ==
  IF i > Len(yearData) THEN stored
  ELSE StoreStates(
         MapSet(stored, yearData[i].k,
                StoreCounties(MapGetOr(stored, yearData[i].k, <<>>), yearData[i].v, 1)),
         yearData, i + 1)

RECURSIVE StoreYears(_, _, _)
StoreYears(ed, rawData, i) ==
  IF i > Len(rawData) THEN ed
  ELSE StoreYears(
         MapSet(ed, rawData[i].k,
                StoreStates(MapGetOr(ed, rawData[i].k, <<>>), rawData[i].v, 1)),
         rawData, i + 1)

(***************************************************************************)
(* calculateResults: every year, state and county of electionData          *)
(***************************************************************************)
RECURSIVE AddCandidates(_, _, _)
\* votes[party] = (votes[party] || 0) + candidate.votes, over the candidates
AddCandidates(votes, candidates, j) ==
  IF j > Len(candidates) THEN votes
  ELSE AddCandidates(
         MapSet(votes, candidates[j].party,
                MapGetOr(votes, candidates[j].party, 0) + candidates[j].votes),
         candidates, j + 1)

RECURSIVE NameScan(_, _, _)
NameScan(candidates, j, countyName) ==
  IF j > Len(candidates) THEN countyName
  ELSE NameScan(candidates, j + 1,
                IF candidates[j].countyName # "" THEN candidates[j].countyName
                ELSE countyName)

\* countyName: 'Unknown County' unless a candidate carries a name
CountyNameOf(candidates) == NameScan(candidates, 1, "Unknown County")

\* storageKey of calculateResults
CalcStorageKey(stateName, countyFips) ==
  IF stateName = "ALASKA" /\ MapHas(alaskaFipsMapping, countyFips)
  THEN MapGet(alaskaFipsMapping, countyFips)
  ELSE countyFips

\* The CountyResult calculateResults stores for one county
CalcCountyResult(stateName, candidates) ==
  LET countyVotes == AddCandidates(<<>>, candidates, 1)
  IN  [winner |-> determineWinner(countyVotes), votes |-> countyVotes,
       state |-> stateName, name |-> CountyNameOf(candidates),
       candidates |-> candidates]

RECURSIVE CalcCounties_LastCountyOnly(_, _, _, _)
\* Mutant of CalcCounties: the state tally starts anew at every county
CalcCounties_LastCountyOnly(acc, stateName, stateData, i) ==
  IF i > Len(stateData) THEN acc
  ELSE CalcCounties_LastCountyOnly(
         [stateVotes |-> AddCandidates(<<>>, stateData[i].v, 1),
          counties   |-> MapSet(acc.counties,
                                CalcStorageKey(stateName, stateData[i].k),
                                CalcCountyResult(stateName, stateData[i].v))],
         stateName, stateData, i + 1)

RECURSIVE CalcCounties(_, _, _, _)
\* acc = [stateVotes, counties]: the running state tally and countyResults[year]
CalcCounties(acc, stateName, stateData, i) ==
  IF i > Len(stateData) THEN acc
  ELSE CalcCounties(
         [stateVotes |-> AddCandidates(acc.stateVotes, stateData[i].v, 1),
          counties   |-> MapSet(acc.counties,
                                CalcStorageKey(stateName, stateData[i].k),
                                CalcCountyResult(stateName, stateData[i].v))],
         stateName, stateData, i + 1)

RECURSIVE CalcStates(_, _, _)
\* acc = [states, counties]: stateResults[year] and countyResults[year]
CalcStates(acc, yearData, i) ==
  IF i > Len(yearData) THEN acc
  ELSE LET c == CalcCounties([stateVotes |-> <<>>, counties |-> acc.counties],
                             yearData[i].k, yearData[i].v, 1)
       IN  CalcStates(
             [states   |-> MapSet(acc.states, yearData[i].k,
                                  [winner |-> determineWinner(c.stateVotes),
                                   votes  |-> c.stateVotes]),
              counties |-> c.counties],
             yearData, i + 1)

RECURSIVE CalcYears(_, _, _)
\* acc = [stateResults, countyResults]
CalcYears(acc, ed, i) ==
  IF i > Len(ed) THEN acc
  ELSE LET y == CalcStates([states   |-> MapGetOr(acc.stateResults, ed[i].k, <<>>),
                            counties |-> MapGetOr(acc.countyResults, ed[i].k, <<>>)],
                           ed[i].v, 1)
       IN  CalcYears([stateResults  |-> MapSet(acc.stateResults, ed[i].k, y.states),
                      countyResults |-> MapSet(acc.countyResults, ed[i].k, y.counties)],
                     ed, i + 1)

\* calculateResults(): [stateResults, countyResults] after the call
calculateResults(ed, sr, cr) ==
  CalcYears([stateResults |-> sr, countyResults |-> cr], ed, 1)

\* processElectionData(csvData): [electionData, stateResults, countyResults]
processElectionData(csvData, ed, sr, cr) ==
  LET edNew == StoreYears(ed, Accumulate(csvData), 1)
      res   == calculateResults(edNew, sr, cr)
  IN  [electionData |-> edNew, stateResults |-> res.stateResults,
       countyResults |-> res.countyResults]

(***************************************************************************)
(* processStateElectionData / processStateRawData: one state of one year   *)
(***************************************************************************)
\* Mutant of StateStorageKey: the Alaska remapping left out
StateStorageKey_NoMapping(state, county) == county

\* storageKey of processStateRawData
StateStorageKey(state, county) ==
  IF state = "ALASKA" /\ MapHas(alaskaFipsMapping, county)
  THEN MapGet(alaskaFipsMapping, county)
  ELSE county

\* The CountyResult processStateRawData stores for one county
StateCountyResult(state, candidateArray) ==
  LET countyVotes == AddCandidates(<<>>, candidateArray, 1)
  IN  [winner |-> determineWinner(countyVotes), votes |-> countyVotes,
       state |-> state, name |-> CountyNameOf(candidateArray),
       candidates |-> candidateArray]

RECURSIVE StateCounties(_, _, _, _)
\* acc = [stored, counties]: electionData[year][state] and countyResults[year]
StateCounties(acc, state, stateData, i) ==
  IF i > Len(stateData) THEN acc
  ELSE LET candidateArray ==
             CandidateArray(ResolveModes(stateData[i].v.modes), stateData[i].v.name)
       IN  StateCounties(
             [stored   |-> MapSet(acc.stored, stateData[i].k, candidateArray),
              counties |-> MapSet(acc.counties,
                                  StateStorageKey(state, stateData[i].k),
                                  StateCountyResult(state, candidateArray))],
             state, stateData, i + 1)

RECURSIVE StateStates(_, _, _, _)
\* acc = [yearStored, counties]: electionData[year] and countyResults[year]
StateStates(acc, targetState, yearData, i) ==
  IF i > Len(yearData) THEN acc
  ELSE IF yearData[i].k # targetState
       THEN StateStates(acc, targetState, yearData, i + 1)
       ELSE LET c == StateCounties(
                       [stored   |-> MapGetOr(acc.yearStored, yearData[i].k, <<>>),
                        counties |-> acc.counties],
                       yearData[i].k, yearData[i].v, 1)
            IN  StateStates([yearStored |-> MapSet(acc.yearStored, yearData[i].k, c.stored),
                             counties   |-> c.counties],
                            targetState, yearData, i + 1)

RECURSIVE StateYears(_, _, _, _)
\* acc = [electionData, countyResults]
StateYears(acc, targetState, rawData, i) ==
  IF i > Len(rawData) THEN acc
  ELSE LET y == StateStates(
                  [yearStored |-> MapGetOr(acc.electionData, rawData[i].k, <<>>),
                   counties   |-> MapGetOr(acc.countyResults, rawData[i].k, <<>>)],
                  targetState, rawData[i].v, 1)
       IN  StateYears([electionData  |-> MapSet(acc.electionData, rawData[i].k, y.yearStored),
                       countyResults |-> MapSet(acc.countyResults, rawData[i].k, y.counties)],
                      targetState, rawData, i + 1)

\* processStateRawData(rawData, targetYear, targetState)
processStateRawData(rawData, targetState, ed, cr) ==
  StateYears([electionData |-> ed, countyResults |-> cr], targetState, rawData, 1)

\* processStateElectionData(csvData, targetYear, targetState)
processStateElectionData(csvData, targetState, ed, cr) ==
  processStateRawData(Accumulate(csvData), targetState, ed, cr)

(***************************************************************************)
(* Bounds and input domains                                                *)
(***************************************************************************)
\* Longest row table the external source delivers
MaxRows == 3

\* Longest row table in the worlds of the geography lookups
MaxGeoRows == 2

\* Cap of the counters that count the runs of the aggregation routines
MaxRuns == 2

\* The options of the year selector
Years == {"2020", "2024"}

Txt1 == <<"1">>

Txt2 == <<"2">>

Txt3 == <<"3">>

TxtCandidate == <<"A">>

Fips2001 == <<"2","0","0","1">>

Fips02240 == <<"0","2","2","4","0">>

Fips13209 == <<"1","3","2","0","9">>

Fips13211 == <<"1","3","2","1","1">>

FipsNA == <<"N","A">>

\* One parsed row of the table (d3.csv yields a string for every column)
Row(year, state, fips, name, party, votes, mode) ==
  [year |-> year, state |-> state, county_fips |-> fips, county_name |-> name,
   candidate |-> TxtCandidate, party |-> party, candidatevotes |-> votes,
   mode |-> mode]

\* All row tables of 1..n rows over a pool of rows
Tables(pool, n) == UNION {[1..k -> pool] : k \in 1..n}

(***************************************************************************)
(* State                                                                   *)
(***************************************************************************)
VARIABLES
  csvFile,            \* the rows d3.csv will deliver (external, fixed)
  stateNames,         \* the states of the boundary topology (external, fixed)
  countiesTopology,   \* the ids of the county features (external, fixed)
  rawCsvData,         \* [loaded, rows]: this.rawCsvData, null until loaded
  currentYear,        \* this.currentYear
  electionData,       \* this.electionData: year -> state -> county -> candidates
  stateResults,       \* this.stateResults: year -> state -> StateResult
  countyResults,      \* this.countyResults: year -> storage key -> CountyResult
  processedYears,     \* this.processedYears
  processedStateData, \* this.processedStateData: the <<year, state>> keys set
  countyFipsCache,    \* this.countyFipsCache: <<year, state, topology id>> -> lookup
  fipsMatchCache,     \* this.fipsMatchCache: <<year, state, topoId>> -> result
  stateCountiesCache, \* this.stateCountiesCache: state -> county features
  countyPathCache,    \* this.countyPathCache: state -> county ids with a path
  countyBoundsCache,  \* this.countyBoundsCache: the <<state, county>> keys set
  lastRenderedCounty, \* this.lastRenderedCounty: <<>> (null) or <<state, county>>
  currentLevel,       \* this.currentLevel
  currentState,       \* this.currentState: a state name, or Null
  currentCounty,      \* this.currentCounty: a storage key, or NoCounty (null)
  navigationTimeout,  \* this.navigationTimeout: "null", or the timer it names
                      \* is "pending" or has "fired"
  navigationTimers,   \* number of timers of performNavigation still pending
  debounceTimeout,    \* this.debounceTimeout: "null", or the timer it names is
                      \* "pending" or has "fired"
  topology,           \* which of this.topology and this.countiesTopology are
                      \* set: "none", "states" or "all"
  initPhase,          \* where init() is: awaiting the "topology", awaiting the
                      \* "rows", "ready", or "failed" (its catch block ran)
  errorShown,         \* the sidebar shows the message of showError
  mapView,            \* what the map shows: [by, level, state, county, year]
  breadcrumb,         \* what updateBreadcrumb last showed: <<level, state, county>>
  yearRuns,           \* year -> number of runs of processElectionData for it
  stateRuns,          \* <<year, state>> -> number of runs of processStateElectionData
  lastCall            \* the last processYearData / processStateCountyData call:
                      \* whether it ran the aggregation and, when it returned
                      \* early, its arguments

vars == <<csvFile, stateNames, countiesTopology, rawCsvData, currentYear,
          electionData, stateResults, countyResults, processedYears,
          processedStateData, countyFipsCache, fipsMatchCache,
          stateCountiesCache, countyPathCache, countyBoundsCache,
          lastRenderedCounty, currentLevel, currentState, currentCounty,
          navigationTimeout, navigationTimers, debounceTimeout, topology, initPhase, errorShown,
          mapView, breadcrumb, yearRuns, stateRuns, lastCall>>

external == <<csvFile, stateNames, countiesTopology>>

results == <<electionData, stateResults, countyResults>>

\* The caches of the renderer other than countyFipsCache, and its marker of
\* the county view shown
renderCaches == <<fipsMatchCache, stateCountiesCache, countyPathCache,
                  countyBoundsCache, lastRenderedCounty>>

\* null, as the value of this.currentState
Null == "null"

\* null, as the value of this.currentCounty
NoCounty == <<>>

\* The navigation state
location == <<currentLevel, currentState, currentCounty>>

\* The timers of performNavigation
navigationTimer == <<navigationTimeout, navigationTimers>>

\* The timer of updateCurrentView
viewTimer == <<debounceTimeout>>

\* The progress of init()
loading == <<topology, initPhase>>

\* What the page shows
page == <<errorShown, mapView, breadcrumb>>

\* The navigation state, the timers and what the page shows
navigation == <<location, navigationTimer, viewTimer, loading, page>>

\* The map before anything was drawn, or after a rendering that threw
\* once it had removed the drawing
Blank == [by |-> "none", level |-> "none", state |-> Null, county |-> NoCounty,
          year |-> "", handlers |-> "none", lookupsYear |-> ""]

\* The map as a render function drew it: the level, the state, the county
\* and the year drawn; the render function whose click handlers the county
\* paths carry ("none" without county paths), and the year of the lookups
\* those handlers hold
Drawn(by, level, state, county, year, handlers, lookupsYear) ==
  [by |-> by, level |-> level, state |-> state, county |-> county, year |-> year,
   handlers |-> handlers, lookupsYear |-> lookupsYear]

Call(op, year, state, ran) ==
  IF ran THEN [op |-> op, year |-> "", state |-> "", ran |-> TRUE]
  ELSE [op |-> op, year |-> year, state |-> state, ran |-> FALSE]

\* An external world: the pool the row table is drawn from, and the states
\* and county features of the boundary topology
World(pool, maxRows, states, counties) ==
  [pool |-> pool, maxRows |-> maxRows, states |-> states, counties |-> counties]

\* The state after the constructor, before init() has loaded anything, with
\* the year selector offering the options years
InitOver(worlds, years) ==
  /\ \E w \in worlds :
       /\ csvFile \in Tables(w.pool, w.maxRows)
       /\ stateNames = w.states
       /\ countiesTopology = w.counties
  /\ rawCsvData = [loaded |-> FALSE, rows |-> <<>>]
  /\ currentYear = "2024"
  /\ electionData = <<>>
  /\ stateResults = <<>>
  /\ countyResults = <<>>
  /\ processedYears = {}
  /\ processedStateData = {}
  /\ countyFipsCache = <<>>
  /\ fipsMatchCache = <<>>
  /\ stateCountiesCache = <<>>
  /\ countyPathCache = <<>>
  /\ countyBoundsCache = {}
  /\ lastRenderedCounty = <<>>
  /\ currentLevel = "national"
  /\ currentState = Null
  /\ currentCounty = NoCounty
  /\ navigationTimeout = "null"
  /\ navigationTimers = 0
  /\ debounceTimeout = "null"
  /\ topology = "none"
  /\ initPhase = "topology"
  /\ errorShown = FALSE
  /\ mapView = Blank
  /\ breadcrumb = <<"none", Null, NoCounty>>
  /\ yearRuns = [y \in years |-> 0]
  /\ stateRuns = [key \in years \X (stateNames \cup {Null}) |-> 0]
  /\ lastCall = Call("constructor", "", "", FALSE)

\* The state after the constructor with the year options Years
InitWith(worlds) == InitOver(worlds, Years)

(***************************************************************************)
(* Timers and page updates                                                 *)
(***************************************************************************)
\* updateCurrentView(): the pending timer, if any, is cleared and a new one
\* is set, whose callback requests the animation frame that renders
UpdateCurrentView == debounceTimeout' = "pending"

\* Mutant of PerformNavigation: the pending timer is not cleared
PerformNavigation_NoClear ==
  /\ navigationTimers' = navigationTimers + 1
  /\ navigationTimeout' = "pending"

\* performNavigation(): clearTimeout on the timer navigationTimeout names,
\* then a new timer
PerformNavigation ==
  /\ navigationTimers' =
       (IF navigationTimeout = "pending" THEN navigationTimers - 1
        ELSE navigationTimers) + 1
  /\ navigationTimeout' = "pending"

\* The national map as renderNationalView() draws it for the current year
NationalView(by) == Drawn(by, "national", Null, NoCounty, currentYear, "none", "")

(***************************************************************************)
(* Result Store and Lazy Scheduler                                         *)
(***************************************************************************)
\* Mutant of DoProcessYearData: the processedYears check left out
DoProcessYearData_NoCheck(raw, year) ==
  IF ~raw.loaded
  THEN UNCHANGED <<results, processedYears, yearRuns>>
  ELSE LET yearData == SelectSeq(raw.rows, LAMBDA d : d.year = year)
           res      == processElectionData(yearData, electionData, stateResults,
                                           countyResults)
       IN  /\ yearRuns[year] < MaxRuns
           /\ electionData' = res.electionData
           /\ stateResults' = res.stateResults
           /\ countyResults' = res.countyResults
           /\ processedYears' = processedYears \cup {year}
           /\ yearRuns' = [yearRuns EXCEPT ![year] = @ + 1]

\* The body of processYearData(year), reading the row table raw
DoProcessYearData(raw, year) ==
  IF year \in processedYears \/ ~raw.loaded
  THEN UNCHANGED <<results, processedYears, yearRuns>>
  ELSE LET yearData == SelectSeq(raw.rows, LAMBDA d : d.year = year)
           res      == processElectionData(yearData, electionData, stateResults,
                                           countyResults)
       IN  /\ yearRuns[year] < MaxRuns
           /\ electionData' = res.electionData
           /\ stateResults' = res.stateResults
           /\ countyResults' = res.countyResults
           /\ processedYears' = processedYears \cup {year}
           /\ yearRuns' = [yearRuns EXCEPT ![year] = @ + 1]

\* processYearData(year) ran the aggregation (it did not return early)
YearRan(raw, year) == ~(year \in processedYears \/ ~raw.loaded)

\* processYearData(year), called on the instance
ProcessYearData(year) ==
  /\ DoProcessYearData(rawCsvData, year)
  /\ lastCall' = Call("processYearData", year, "", YearRan(rawCsvData, year))
  /\ UNCHANGED <<external, navigation, renderCaches, countyFipsCache, rawCsvData, currentYear, processedStateData, stateRuns>>

\* loadTopology(), awaited by init(), succeeds: both files arrive
LoadTopology ==
  /\ initPhase = "topology"
  /\ topology' = "all"
  /\ initPhase' = "rows"
  /\ UNCHANGED <<external, location, navigationTimer, viewTimer, page,
                 renderCaches, countyFipsCache, rawCsvData, currentYear, results,
                 processedYears, processedStateData, yearRuns, stateRuns, lastCall>>

\* loadElectionData(), awaited by init(), succeeds: the table arrives and the
\* current year is processed; init() then draws the national view and
\* updates the sidebar and the breadcrumb
LoadElectionData ==
  /\ initPhase = "rows"
  /\ ~rawCsvData.loaded
  /\ rawCsvData' = [loaded |-> TRUE, rows |-> csvFile]
  /\ DoProcessYearData(rawCsvData', currentYear)
  /\ lastCall' = Call("processYearData", currentYear, "",
                      YearRan(rawCsvData', currentYear))
  /\ lastRenderedCounty' = <<>>
  /\ mapView' = NationalView("init")
  /\ errorShown' = FALSE
  /\ breadcrumb' = location
  /\ initPhase' = "ready"
  /\ UNCHANGED <<external, location, navigationTimer, viewTimer, topology,
                 fipsMatchCache, stateCountiesCache, countyPathCache,
                 countyBoundsCache, countyFipsCache, currentYear,
                 processedStateData, stateRuns>>

\* The change listener of the year selector: the year is processed, then
\* updateCurrentView() and updateSidebar()
YearSelectChange(newYear) ==
  /\ newYear # currentYear
  /\ currentYear' = newYear
  /\ DoProcessYearData(rawCsvData, newYear)
  /\ lastCall' = Call("processYearData", newYear, "", YearRan(rawCsvData, newYear))
  /\ UpdateCurrentView
  /\ errorShown' = FALSE
  /\ UNCHANGED <<external, location, navigationTimer, loading, mapView, breadcrumb,
                 renderCaches, countyFipsCache, rawCsvData, processedStateData,
                 stateRuns>>

\* processStateCountyData(year, stateName) ran the aggregation
StateRan(year, stateName) ==
  ~(<<year, stateName>> \in processedStateData) /\ rawCsvData.loaded

\* Mutant of DoProcessStateCountyData: the key is never marked processed
DoProcessStateCountyData_NoMark(year, stateName) ==
  IF <<year, stateName>> \in processedStateData \/ ~rawCsvData.loaded
  THEN UNCHANGED <<electionData, countyResults, processedStateData, stateRuns>>
  ELSE LET stateYearData ==
             SelectSeq(rawCsvData.rows,
                       LAMBDA d : d.year = year /\ d.state = stateName)
           res == processStateElectionData(stateYearData, stateName, electionData,
                                           countyResults)
       IN  /\ stateRuns[<<year, stateName>>] < MaxRuns
           /\ electionData' = res.electionData
           /\ countyResults' = res.countyResults
           /\ UNCHANGED processedStateData
           /\ stateRuns' = [stateRuns EXCEPT ![<<year, stateName>>] = @ + 1]

\* The body of processStateCountyData(year, stateName)
DoProcessStateCountyData(year, stateName) ==
  IF <<year, stateName>> \in processedStateData
  THEN UNCHANGED <<electionData, countyResults, processedStateData, stateRuns>>
  ELSE IF ~rawCsvData.loaded
  THEN UNCHANGED <<electionData, countyResults, processedStateData, stateRuns>>
  ELSE LET stateYearData ==
             SelectSeq(rawCsvData.rows,
                       LAMBDA d : d.year = year /\ d.state = stateName)
           res == processStateElectionData(stateYearData, stateName, electionData,
                                           countyResults)
       IN  /\ stateRuns[<<year, stateName>>] < MaxRuns
           /\ electionData' = res.electionData
           /\ countyResults' = res.countyResults
           /\ processedStateData' = processedStateData \cup {<<year, stateName>>}
           /\ stateRuns' = [stateRuns EXCEPT ![<<year, stateName>>] = @ + 1]

\* processStateCountyData(year, stateName), called on the instance
ProcessStateCountyData(year, stateName) ==
  /\ DoProcessStateCountyData(year, stateName)
  /\ lastCall' = Call("processStateCountyData", year, stateName,
                      StateRan(year, stateName))
  /\ UNCHANGED <<external, navigation, renderCaches, countyFipsCache, rawCsvData, currentYear, stateResults, processedYears,
                 yearRuns>>

(***************************************************************************)
(* Geography Key Reconciler and its match cache                            *)
(***************************************************************************)
\* The entries of the stateNames table of getStateName that the model's
\* topologies use: <<state FIPS, name>>
StateNameTable ==
  {<<1, "ALABAMA">>, <<2, "ALASKA">>, <<13, "GEORGIA">>, <<44, "RHODE ISLAND">>}

\* String.prototype.padStart(2, '0')
PadStart2(t) == IF Len(t) < 2 THEN <<"0">> \o t ELSE t

\* getStateName(stateId) / getStateNameFromFips(fipsCode)
getStateName(stateId) ==
  IF \E e \in StateNameTable : PadStart2(NatToText(e[1])) = PadStart2(stateId)
  THEN (CHOOSE e \in StateNameTable : PadStart2(NatToText(e[1])) = PadStart2(stateId))[2]
  ELSE "UNKNOWN"

\* getStateCounties(stateName): the county features whose id, divided by
\* 1000, is the FIPS code of the state
getStateCounties(stateName) ==
  {id \in countiesTopology :
     getStateName(PadStart2(NatToText(ParseInt(id).val \div 1000))) = stateName}

\* The value findCountyFips returns: null, or {format, result}
NoMatch == [found |-> FALSE]

Match(format, result) == [found |-> TRUE, format |-> format, result |-> result]

\* Mutant of CorrectedTopoId: the correction table is not consulted
CorrectedTopoId_NoCorrection(topoId, stateName) == topoId

\* correctedTopoId of findCountyFips
CorrectedTopoId(topoId, stateName) ==
  IF stateName = "GEORGIA" /\ MapHas(georgiaFipsMapping, topoId)
  THEN MapGet(georgiaFipsMapping, topoId)
  ELSE topoId

\* Mutant of Formats: the original id is tried before the corrected id
Formats_OriginalFirst(topoId, stateName) ==
  LET correctedTopoId == CorrectedTopoId(topoId, stateName)
  IN  <<topoId,
        correctedTopoId,
        NumberToString(ParseInt(correctedTopoId)),
        SubstringFrom(correctedTopoId, 2),
        NumberToString(ParseInt(SubstringFrom(correctedTopoId, 2)))>>

\* formats of findCountyFips: the candidate keys in the order they are tried
Formats(topoId, stateName) ==
  LET correctedTopoId == CorrectedTopoId(topoId, stateName)
  IN  <<correctedTopoId,
        topoId,
        NumberToString(ParseInt(correctedTopoId)),
        SubstringFrom(correctedTopoId, 2),
        NumberToString(ParseInt(SubstringFrom(correctedTopoId, 2)))>>

RECURSIVE TryFormats_AnyState(_, _, _, _)
\* Mutant of TryFormats: the recorded state of the result is not compared
TryFormats_AnyState(formats, i, stateName, yearResults) ==
  IF i > Len(formats) THEN NoMatch
  ELSE IF MapHas(yearResults, formats[i])
       THEN Match(formats[i], MapGet(yearResults, formats[i]))
       ELSE TryFormats_AnyState(formats, i + 1, stateName, yearResults)

RECURSIVE TryFormats(_, _, _, _)
\* The for loop of findCountyFips over countyResults.get(currentYear)
TryFormats(formats, i, stateName, yearResults) ==
  IF i > Len(formats) THEN NoMatch
  ELSE IF /\ MapHas(yearResults, formats[i])
          /\ MapGet(yearResults, formats[i]).state = stateName
       THEN Match(formats[i], MapGet(yearResults, formats[i]))
       ELSE TryFormats(formats, i + 1, stateName, yearResults)

\* Mutant of findCountyFips: the cache is not consulted
findCountyFips_Uncached(topoId, stateName) ==
  TryFormats(Formats(topoId, stateName), 1, stateName,
             MapGetOr(countyResults, currentYear, <<>>))

\* The value findCountyFips(topoId, stateName) returns
findCountyFips(topoId, stateName) ==
  LET cacheKey == <<currentYear, stateName, topoId>>
  IN  IF cacheKey \in DOMAIN countyFipsCache THEN countyFipsCache[cacheKey]
      ELSE TryFormats(Formats(topoId, stateName), 1, stateName,
                      MapGetOr(countyResults, currentYear, <<>>))

\* getPartyColor(party)
getPartyColor(party) ==
  IF party = REPUBLICAN THEN "#DC143C"
  ELSE IF party = DEMOCRAT THEN "#4169E1"
  ELSE IF party = <<"L","I","B","E","R","T","A","R","I","A","N">> THEN "#FED105"
  ELSE "#9370DB"

\* The fill renderStatewideView gives a county feature whose lookup it has
CountyFill(lookup) ==
  IF lookup.found THEN getPartyColor(lookup.result.winner) ELSE "#666"

\* findCountyFips(topoId, stateName), called for a county feature of the
\* state: the outcome, a failed one too, is put in the cache
FindCountyFips(topoId, stateName) ==
  LET cacheKey == <<currentYear, stateName, topoId>>
  IN  /\ topoId \in getStateCounties(stateName)
      /\ countyFipsCache' =
           IF cacheKey \in DOMAIN countyFipsCache THEN countyFipsCache
           ELSE (cacheKey :> findCountyFips(topoId, stateName)) @@ countyFipsCache
      /\ UNCHANGED <<external, navigation, renderCaches, rawCsvData, currentYear, results, processedYears,
                     processedStateData, yearRuns, stateRuns, lastCall>>

\* The operations of the result store and its scheduler
NextStore ==
  \/ LoadTopology
  \/ LoadElectionData
  \/ \E year \in Years : ProcessYearData(year)
  \/ \E year \in Years : YearSelectChange(year)
  \/ \E year \in Years, stateName \in stateNames :
       ProcessStateCountyData(year, stateName)

\* Rows of two years for an Alaska district code, and rows without a county
\* code ("NA", as the table has them for federal precincts and statewide
\* write-ins) in two states
PoolStore ==
  {Row("2024", "ALASKA", Fips2001, "District 1", REPUBLICAN, Txt2, "TOTAL"),
   Row("2024", "ALASKA", FipsNA, "", DEMOCRAT, Txt1, "TOTAL"),
   Row("2024", "RHODE ISLAND", FipsNA, "FEDERAL PRECINCT", REPUBLICAN, Txt1, "TOTAL"),
   Row("2020", "ALASKA", Fips2001, "District 1", DEMOCRAT, Txt1, "TOTAL")}

InitStore == InitWith({World(PoolStore, MaxRows, {"ALASKA", "RHODE ISLAND"}, {})})

\* The result store under every order of loading, year changes and requests
SpecStore == InitStore /\ [][NextStore]_vars

Fips01009 == <<"0","1","0","0","9">>

Fips02290 == <<"0","2","2","9","0">>

\* Every operation of the instance
Next ==
  \/ NextStore
  \/ \E stateName \in stateNames : \E topoId \in countiesTopology :
       FindCountyFips(topoId, stateName)

\* Georgia: the corrected id "13209" and the topology id "13211" both in the
\* table, and a row of another state under "13211"
PoolGeorgia ==
  {Row("2024", "GEORGIA", Fips13209, "MORGAN", REPUBLICAN, Txt2, "TOTAL"),
   Row("2024", "GEORGIA", Fips13211, "MORGAN", DEMOCRAT, Txt1, "TOTAL"),
   Row("2024", "ALABAMA", Fips13211, "MORGAN", DEMOCRAT, Txt3, "TOTAL")}

\* Alabama county 01009 as the table may write it: without the leading zero,
\* as the bare county part "009" and as the number "9"
PoolAlabama ==
  {Row("2024", "ALABAMA", <<"1","0","0","9">>, "BLOUNT", REPUBLICAN, Txt1, "TOTAL"),
   Row("2024", "ALABAMA", <<"0","0","9">>, "BLOUNT", REPUBLICAN, Txt2, "TOTAL"),
   Row("2024", "ALABAMA", <<"9">>, "BLOUNT", REPUBLICAN, Txt3, "TOTAL")}

\* Alaska: rows of a district of the mapping table, in two years
PoolAlaska ==
  {Row("2024", "ALASKA", Fips2001, "District 1", REPUBLICAN, Txt2, "TOTAL"),
   Row("2020", "ALASKA", Fips2001, "District 1", DEMOCRAT, Txt1, "TOTAL")}

Init ==
  InitWith({World(PoolGeorgia, MaxGeoRows, {"GEORGIA"}, {Fips13211}),
            World(PoolAlabama, MaxGeoRows, {"ALABAMA"}, {Fips01009}),
            World(PoolAlaska, MaxGeoRows, {"ALASKA"}, {Fips02240, Fips02290})})

\* The instance under every order of its operations
Spec == Init /\ [][Next]_vars


(***************************************************************************)
(* Properties of the result store                                          *)
(***************************************************************************)
RECURSIVE SumOver(_, _, _)
\* Sum of f[i] for i in 1..n
SumOver(f, n, i) == IF i > n THEN 0 ELSE f[i] + SumOver(f, n, i + 1)

\* Votes of party in a tally, 0 when the tally does not list the party
VotesOf(tally, party) == IF MapHas(tally, party) THEN MapGet(tally, party) ELSE 0

Parties(tally) == {tally[i].k : i \in 1..Len(tally)}

\* Sum over the stored CountyResults of a year whose state is stateName
CountySum(year, stateName, party) ==
  LET cr == MapGetOr(countyResults, year, <<>>)
  IN  SumOver([i \in 1..Len(cr) |->
                 IF cr[i].v.state = stateName THEN VotesOf(cr[i].v.votes, party) ELSE 0],
              Len(cr), 1)

StatesOf(year) ==
  {MapGet(stateResults, year)[i].k : i \in 1..Len(MapGetOr(stateResults, year, <<>>))}
  \cup {MapGet(countyResults, year)[i].v.state :
          i \in 1..Len(MapGetOr(countyResults, year, <<>>))}

StateVotes(year, stateName) ==
  LET sr == MapGetOr(stateResults, year, <<>>)
  IN  IF MapHas(sr, stateName) THEN MapGet(sr, stateName).votes ELSE <<>>

\* C1: once processYearData(y) has completed, for every state and party the
\* votes of the party summed over the stored CountyResults of that state and
\* year equal the party's votes in the StateResult of the state.
C1_CountySumsEqualStateTotals ==
  \A year \in processedYears : \A stateName \in StatesOf(year) :
    \A party \in {REPUBLICAN, DEMOCRAT} \cup Parties(StateVotes(year, stateName)) :
      CountySum(year, stateName, party) = VotesOf(StateVotes(year, stateName), party)

\* C4: processElectionData runs at most once per year, and a processYearData
\* call for a year that is already processed returns without running it and
\* without changing any stored result.
C4_YearAggregationAtMostOnce ==
  /\ [](\A year \in Years : yearRuns[year] <= 1)
  /\ [][\A year \in Years :
          /\ year \in processedYears => yearRuns'[year] = yearRuns[year]
          /\ (/\ year \in processedYears
              /\ lastCall'.op = "processYearData"
              /\ ~lastCall'.ran
              /\ lastCall'.year = year)
             => UNCHANGED <<results, yearRuns, processedYears, processedStateData>>]_vars

\* A processYearData call was absorbed: its year had been processed before
C4_Witness ==
  /\ rawCsvData.loaded
  /\ lastCall.op = "processYearData"
  /\ ~lastCall.ran
  /\ lastCall.year \in processedYears
  /\ yearRuns[lastCall.year] = 1
  /\ MapHas(stateResults, lastCall.year)

\* C5: with the rows loaded, however often processStateCountyData(year, state)
\* has been requested, processStateElectionData has run exactly once for that
\* year and state (the method has no await inside: a request made right after
\* another finds the key already marked).
C5_StateAggregationExactlyOnce ==
  /\ \A key \in Years \X stateNames :
       /\ stateRuns[key] <= 1
       /\ key \in processedStateData <=> stateRuns[key] = 1
  /\ (rawCsvData.loaded /\ lastCall.op = "processStateCountyData" /\ ~lastCall.ran)
       => stateRuns[<<lastCall.year, lastCall.state>>] = 1

\* A second request of the same year and state was absorbed
C5_Witness ==
  /\ rawCsvData.loaded
  /\ lastCall.op = "processStateCountyData"
  /\ ~lastCall.ran
  /\ stateRuns[<<lastCall.year, lastCall.state>>] = 1
  /\ \E i \in 1..Len(rawCsvData.rows) :
       /\ rawCsvData.rows[i].year = lastCall.year
       /\ rawCsvData.rows[i].state = lastCall.state

\* The CountyResults of one state in one year: key, winner, votes, state, name
CountyView(cr, year, stateName) ==
  LET c == MapGetOr(cr, year, <<>>)
  IN  {<<c[i].k, c[i].v.winner, c[i].v.votes, c[i].v.state, c[i].v.name>> :
         i \in {j \in 1..Len(c) : c[j].v.state = stateName}}

\* C6: the state-scoped aggregation of (y, S) run after the whole-year
\* aggregation of y, and the whole-year aggregation of y run after the
\* state-scoped one, leave the CountyResults of S in y as they were.
C6_AggregationIdempotent ==
  [][\A year \in Years : \A stateName \in stateNames :
       /\ (/\ stateRuns'[<<year, stateName>>] = stateRuns[<<year, stateName>>] + 1
           /\ year \in processedYears)
          => CountyView(countyResults', year, stateName)
               = CountyView(countyResults, year, stateName)
       /\ (/\ yearRuns'[year] = yearRuns[year] + 1
           /\ <<year, stateName>> \in processedStateData)
          => CountyView(countyResults', year, stateName)
               = CountyView(countyResults, year, stateName)]_vars

\* C10: once the year of an accepted Alaska row with a district code of the
\* mapping table has been aggregated, by the whole-year or by the state-scoped
\* routine, the year holds an Alaska CountyResult under the mapped borough key
\* and none under the district code ("2001" is stored under "02240").
C10_AlaskaDistrictStoredUnderBorough ==
  \A i \in 1..Len(rawCsvData.rows) :
    LET d  == rawCsvData.rows[i]
        cr == MapGetOr(countyResults, d.year, <<>>)
    IN  (/\ d.state = "ALASKA"
         /\ ~SkipRow(d)
         /\ \E n \in 1..32 : d.county_fips = NatToText(2000 + n)
         /\ (d.year \in processedYears \/ <<d.year, "ALASKA">> \in processedStateData))
        => (/\ \E n \in 1..32 :
                 /\ d.county_fips = NatToText(2000 + n)
                 /\ MapHas(cr, <<"0">> \o NatToText(AlaskaBoroughs[n]))
                 /\ MapGet(cr, <<"0">> \o NatToText(AlaskaBoroughs[n])).state = "ALASKA"
            /\ ~MapHas(cr, d.county_fips)
            /\ (d.county_fips = Fips2001 => MapHas(cr, Fips02240)))

\* Row "2001" of 2024 stored by the whole-year routine alone and row "2001" of
\* 2020 stored by the state-scoped routine alone, both under "02240"
C10_Witness ==
  /\ "2024" \in processedYears
  /\ <<"2024", "ALASKA">> \notin processedStateData
  /\ MapHas(MapGetOr(countyResults, "2024", <<>>), Fips02240)
  /\ "2020" \notin processedYears
  /\ <<"2020", "ALASKA">> \in processedStateData
  /\ MapHas(MapGetOr(countyResults, "2020", <<>>), Fips02240)

(***************************************************************************)
(* Properties of the Mode Resolver                                         *)
(***************************************************************************)
\* Rows of one Georgia county in one year, reported under aggregate modes
\* and under component modes
PoolModes ==
  {Row("2024", "GEORGIA", Fips13209, "MONTGOMERY", p[2], p[3], p[1]) :
     p \in {<<"TOTAL VOTES", REPUBLICAN, Txt3>>,
            <<"TOTAL", REPUBLICAN, Txt2>>,
            <<"ELECTION DAY", REPUBLICAN, Txt2>>,
            <<"ABSENTEE", REPUBLICAN, Txt1>>,
            <<"PROVISIONAL", DEMOCRAT, Txt2>>}}

InitModes == InitWith({World(PoolModes, MaxRows, {"GEORGIA"}, {})})

\* The result store over row tables that mix reporting modes
SpecModes == InitModes /\ [][NextStore]_vars

\* The final tally party -> votes kept in a candidate array
TallyOf(candidates) ==
  [i \in 1..Len(candidates) |-> [k |-> candidates[i].party, v |-> candidates[i].votes]]

\* The county-years of electionData: <<year, state, county, candidates>>
StoredCounties ==
  {<<electionData[y].k, electionData[y].v[s].k, electionData[y].v[s].v[c].k,
     electionData[y].v[s].v[c].v>> :
     <<y, s, c>> \in
       {t \in (1..Len(electionData)) \X (1..MaxRows) \X (1..MaxRows) :
          /\ t[2] <= Len(electionData[t[1]].v)
          /\ t[3] <= Len(electionData[t[1]].v[t[2]].v)}}

\* The accumulated modes of a county-year, from the loaded rows
ModesOf(year, state, county) ==
  MapGet(MapGet(MapGet(Accumulate(rawCsvData.rows), year), state), county).modes

\* The votes stored for the county in countyResults, when the key holds a
\* result of that state
StoredVotesAgree(year, state, county, tally) ==
  LET cr == MapGetOr(countyResults, year, <<>>)
  IN  (MapHas(cr, county) /\ MapGet(cr, county).state = state)
        => MapGet(cr, county).votes = tally

\* C2: a county-year whose modes include "TOTAL VOTES" has exactly the
\* "TOTAL VOTES" map as its final tally; otherwise, if they include "TOTAL",
\* exactly the "TOTAL" map. Component modes next to an aggregate add nothing.
C2_AggregateModePrecedence ==
  \A t \in StoredCounties :
    LET modes == ModesOf(t[1], t[2], t[3])
        tally == TallyOf(t[4])
    IN  /\ MapHas(modes, "TOTAL VOTES")
             => (/\ tally = MapGet(modes, "TOTAL VOTES")
                 /\ StoredVotesAgree(t[1], t[2], t[3], MapGet(modes, "TOTAL VOTES")))
        /\ (~MapHas(modes, "TOTAL VOTES") /\ MapHas(modes, "TOTAL"))
             => (/\ tally = MapGet(modes, "TOTAL")
                 /\ StoredVotesAgree(t[1], t[2], t[3], MapGet(modes, "TOTAL")))

\* TOTAL VOTES 3 reported next to ELECTION DAY 2 and ABSENTEE 1: the stored
\* tally is 3, not 6
C2_Witness ==
  \E t \in StoredCounties :
    LET modes == ModesOf(t[1], t[2], t[3])
    IN  /\ MapHas(modes, "TOTAL VOTES")
        /\ MapHas(modes, "ELECTION DAY")
        /\ MapHas(modes, "ABSENTEE")
        /\ VotesOf(MapGet(modes, "TOTAL VOTES"), REPUBLICAN) = 3
        /\ VotesOf(MapGet(modes, "ELECTION DAY"), REPUBLICAN) = 2
        /\ VotesOf(MapGet(modes, "ABSENTEE"), REPUBLICAN) = 1
        /\ VotesOf(TallyOf(t[4]), REPUBLICAN) = 3
        /\ MapHas(MapGetOr(countyResults, t[1], <<>>), t[3])

\* Sum of the party's votes over all the modes of a county-year
ModeSum(modes, party) ==
  SumOver([i \in 1..Len(modes) |-> VotesOf(modes[i].v, party)], Len(modes), 1)

\* C3: a county-year with neither "TOTAL VOTES" nor "TOTAL" has, for each
\* party, the sum of the party's votes over all its modes, the component
\* modes of the excluded set included.
C3_ComponentModesSummed ==
  \A t \in StoredCounties :
    LET modes == ModesOf(t[1], t[2], t[3])
        tally == TallyOf(t[4])
        cr    == MapGetOr(countyResults, t[1], <<>>)
    IN  (~MapHas(modes, "TOTAL VOTES") /\ ~MapHas(modes, "TOTAL"))
          => /\ Parties(tally) = UNION {Parties(modes[i].v) : i \in 1..Len(modes)}
             /\ \A party \in Parties(tally) :
                  /\ VotesOf(tally, party) = ModeSum(modes, party)
                  /\ (MapHas(cr, t[3]) /\ MapGet(cr, t[3]).state = t[2])
                       => VotesOf(MapGet(cr, t[3]).votes, party) = ModeSum(modes, party)

\* ELECTION DAY 2 and ABSENTEE 1 with no aggregate mode: the stored tally is 3
C3_Witness ==
  \E t \in StoredCounties :
    LET modes == ModesOf(t[1], t[2], t[3])
    IN  /\ ~MapHas(modes, "TOTAL VOTES") /\ ~MapHas(modes, "TOTAL")
        /\ VotesOf(MapGetOr(modes, "ELECTION DAY", <<>>), REPUBLICAN) = 2
        /\ VotesOf(MapGetOr(modes, "ABSENTEE", <<>>), REPUBLICAN) = 1
        /\ VotesOf(TallyOf(t[4]), REPUBLICAN) = 3
        /\ <<t[1], t[2]>> \in processedStateData
        /\ MapHas(MapGetOr(countyResults, t[1], <<>>), t[3])

(***************************************************************************)
(* Geography lookups: claims C7 to C9                                      *)
(***************************************************************************)
\* t without its leading zeros
StripZeros(t) ==
  IF Len(t) > 1 /\ t[1] = "0" THEN
    LET first == CHOOSE i \in 1..Len(t) :
                   /\ (t[i] # "0" \/ i = Len(t))
                   /\ \A j \in 1..(i - 1) : t[j] = "0"
    IN  SubSeq(t, first, Len(t))
  ELSE t

\* The candidate keys in the order stated for the lookup: the corrected id, the
\* original id, the corrected id without leading zero, the 3-digit suffix of
\* the corrected id, that suffix without leading zeros
Candidates(topoId, stateName) ==
  LET corrected == IF stateName = "GEORGIA" /\ topoId = Fips13211 THEN Fips13209
                   ELSE topoId
      suffix == SubSeq(corrected, Len(corrected) - 2, Len(corrected))
  IN  <<corrected, topoId, StripZeros(corrected), suffix, StripZeros(suffix)>>

\* The positions of the candidates that are keys of the current year's
\* countyResults with a result of the requested state
Hits(topoId, stateName) ==
  LET yearResults == MapGetOr(countyResults, currentYear, <<>>)
      c == Candidates(topoId, stateName)
  IN  {i \in 1..Len(c) : /\ MapHas(yearResults, c[i])
                         /\ MapGet(yearResults, c[i]).state = stateName}

First(S) == CHOOSE i \in S : \A j \in S : i <= j

\* The lookups that a step resolves: findCountyFips ran its loop for them and
\* put the outcome, which it returns, in the match cache
Resolved == DOMAIN countyFipsCache' \ DOMAIN countyFipsCache

\* C7: a lookup that findCountyFips resolves returns the first candidate, in
\* the stated order, that is a key of the current year's countyResults with a
\* result of the requested state, together with that result; and no outcome
\* findCountyFips holds or returns carries a result recorded for another state.
C7_FirstMatchingCandidateReturned ==
  /\ [](\A key \in DOMAIN countyFipsCache :
          countyFipsCache[key].found => countyFipsCache[key].result.state = key[2])
  /\ [][\A key \in Resolved :
          LET lookup == countyFipsCache'[key]
              hits == Hits(key[3], key[2])
              c == Candidates(key[3], key[2])
              yearResults == MapGetOr(countyResults, currentYear, <<>>)
          IN  /\ key[1] = currentYear
              /\ lookup.found <=> hits # {}
              /\ hits # {} =>
                   /\ lookup.format = c[First(hits)]
                   /\ lookup.result = MapGet(yearResults, c[First(hits)])]_vars

\* The corrected and the original id of Georgia's county are both keys of the
\* year, both with Georgia results, and the lookup returned the corrected one
C7_Witness ==
  LET yearResults == MapGetOr(countyResults, "2024", <<>>)
      key == <<"2024", "GEORGIA", Fips13211>>
  IN  /\ MapHas(yearResults, Fips13209)
      /\ MapGet(yearResults, Fips13209).state = "GEORGIA"
      /\ MapHas(yearResults, Fips13211)
      /\ MapGet(yearResults, Fips13211).state = "GEORGIA"
      /\ key \in DOMAIN countyFipsCache
      /\ countyFipsCache[key].found
      /\ countyFipsCache[key].format = Fips13209

\* C8: when the current year's results hold a Georgia CountyResult under
\* "13209", a lookup of topology id "13211" for GEORGIA that findCountyFips
\* resolves returns the match with storage key "13209".
C8_GeorgiaCorrectionResolves ==
  [][LET yearResults == MapGetOr(countyResults, currentYear, <<>>)
         key == <<currentYear, "GEORGIA", Fips13211>>
     IN  (/\ key \in Resolved
          /\ MapHas(yearResults, Fips13209)
          /\ MapGet(yearResults, Fips13209).state = "GEORGIA")
         => /\ countyFipsCache'[key].found
            /\ countyFipsCache'[key].format = Fips13209
            /\ countyFipsCache'[key].result = MapGet(yearResults, Fips13209)]_vars

\* The year has no key "13211" at all, and the lookup of "13211" returned the
\* Georgia result stored under "13209"
C8_Witness ==
  LET yearResults == MapGetOr(countyResults, "2024", <<>>)
      key == <<"2024", "GEORGIA", Fips13211>>
  IN  /\ currentYear = "2024"
      /\ ~MapHas(yearResults, Fips13211)
      /\ MapHas(yearResults, Fips13209)
      /\ key \in DOMAIN countyFipsCache
      /\ countyFipsCache[key] = Match(Fips13209, MapGet(yearResults, Fips13209))

\* C9: a lookup that findCountyFips resolves while no candidate is a key of
\* the current year's countyResults with a result of the requested state
\* returns null, and the renderer gives the county the fill of a county
\* without data.
C9_NoMatchIsNull ==
  [][\A key \in Resolved :
       Hits(key[3], key[2]) = {}
         => /\ countyFipsCache'[key] = NoMatch
            /\ CountyFill(countyFipsCache'[key]) = "#666"]_vars

\* Both cases looked up: borough "02240" in 2020, a year without any result,
\* and borough "02290", which has no row, in 2024, whose results hold the
\* Alaska district row under "02240"
C9_Witness ==
  /\ currentYear = "2024"
  /\ ~MapHas(countyResults, "2020")
  /\ <<"2020", "ALASKA", Fips02240>> \in DOMAIN countyFipsCache
  /\ countyFipsCache[<<"2020", "ALASKA", Fips02240>>] = NoMatch
  /\ MapHas(MapGetOr(countyResults, "2024", <<>>), Fips02240)
  /\ <<"2024", "ALASKA", Fips02290>> \in DOMAIN countyFipsCache
  /\ countyFipsCache[<<"2024", "ALASKA", Fips02290>>] = NoMatch
  /\ Hits(Fips02290, "ALASKA") = {}

(***************************************************************************)
(* Storage keys and row handling: claims C11 to C18                        *)
(***************************************************************************)
\* Longest row table in the worlds of the row-handling properties
MaxFewRows == 2

Fips2033 == <<"2","0","3","3">>

\* Alaska rows of a district the mapping table has ("2001") and of one it
\* does not have ("2033": the table ends at "2032")
PoolDistricts ==
  {Row("2024", "ALASKA", Fips2001, "District 1", REPUBLICAN, Txt2, "TOTAL"),
   Row("2024", "ALASKA", Fips2033, "District 33", DEMOCRAT, Txt1, "TOTAL")}

Fips44001 == <<"4","4","0","0","1">>
Town4400100001 == Fips44001 \o <<"0","0","0","0","1">>
Town4400100002 == Fips44001 \o <<"0","0","0","0","2">>
Town4400700001 == <<"4","4","0","0","7","0","0","0","0","1">>

\* Rhode Island rows reported by town: ten-character town codes, two of
\* them of the same county
PoolTowns ==
  {Row("2024", "RHODE ISLAND", Town4400100001, "BARRINGTON", REPUBLICAN, Txt2, "TOTAL"),
   Row("2024", "RHODE ISLAND", Town4400100002, "BRISTOL", REPUBLICAN, Txt1, "TOTAL"),
   Row("2024", "RHODE ISLAND", Town4400100002, "BRISTOL", DEMOCRAT, Txt1, "TOTAL"),
   Row("2024", "RHODE ISLAND", Town4400700001, "BURRILLVILLE", DEMOCRAT, Txt2, "TOTAL")}

\* A well-formed Georgia row of county 13209
GoodRow == Row("2024", "GEORGIA", Fips13209, "MONTGOMERY", REPUBLICAN, Txt2, "TOTAL")

\* The row the malformed rows are made from: county 13211, which no
\* well-formed row of these tables carries
BaseRow == Row("2024", "GEORGIA", Fips13211, "MORGAN", REPUBLICAN, Txt1, "TOTAL")

\* Rows with a missing county id, a missing, non-numeric or negative vote
\* count, or the header's year
BadFieldRows ==
  {[BaseRow EXCEPT !.county_fips = <<>>],
   [BaseRow EXCEPT !.candidatevotes = <<>>],
   [BaseRow EXCEPT !.candidatevotes = <<"x">>],
   [BaseRow EXCEPT !.candidatevotes = <<"-","1">>],
   [BaseRow EXCEPT !.year = "year"]}

\* Rows whose candidate label is "TOTAL VOTES CAST", empty, or an over-vote
\* or under-vote marker
BadCandidateRows ==
  {[BaseRow EXCEPT !.candidate = TxtTotalVotesCast],
   [BaseRow EXCEPT !.candidate = <<>>],
   [BaseRow EXCEPT !.candidate = <<"O","v","e","r","v","o","t","e","s">>],
   [BaseRow EXCEPT !.candidate = <<"U","N","D","E","R"," ","V","O","T","E","S">>]}

PoolBadFields == {GoodRow} \cup BadFieldRows

PoolBadCandidates == {GoodRow} \cup BadCandidateRows

\* A row whose party field is empty, next to a well-formed row
NoPartyRow == [BaseRow EXCEPT !.party = <<>>]

PoolNoParty == {GoodRow, NoPartyRow}

InitRows ==
  InitWith({World(PoolDistricts, MaxFewRows, {"ALASKA"}, {}),
            World(PoolTowns, MaxFewRows, {"RHODE ISLAND"}, {}),
            World(PoolBadFields, MaxFewRows, {"GEORGIA"}, {}),
            World(PoolBadCandidates, MaxFewRows, {"GEORGIA"}, {}),
            World(PoolNoParty, MaxFewRows, {"GEORGIA"}, {})})

\* The result store over tables of rows of special form
SpecRows == InitRows /\ [][NextStore]_vars

AllDigits(t) == \A i \in 1..Len(t) : IsDigit(t[i])

\* A borough FIPS key of Alaska: five digits, the first two "02"
IsBoroughKey(key) ==
  Len(key) = 5 /\ AllDigits(key) /\ key[1] = "0" /\ key[2] = "2"

\* A district FIPS code of Alaska: four digits, the first two "20"
IsDistrictCode(key) ==
  Len(key) = 4 /\ AllDigits(key) /\ key[1] = "2" /\ key[2] = "0"

\* C11: every stored CountyResult whose state is ALASKA is stored under a
\* borough FIPS key, and none is stored under a district FIPS code.
C11_AlaskaKeysAreBoroughs ==
  \A y \in 1..Len(countyResults) : \A i \in 1..Len(countyResults[y].v) :
    LET entry == countyResults[y].v[i]
    IN  entry.v.state = "ALASKA"
          => IsBoroughKey(entry.k) /\ ~IsDistrictCode(entry.k)

\* C12: the CountyResult of every accumulated (state, county id) pair of a
\* year is stored in the year: under the pair's storage key the year holds the
\* result of that state computed from that pair's candidates, so none was
\* overwritten by the result of another pair.
C12_StorageKeysUnique ==
  \A y \in 1..Len(electionData) :
    \A s \in 1..Len(electionData[y].v) :
      \A c \in 1..Len(electionData[y].v[s].v) :
        LET year == electionData[y].k
            stateName == electionData[y].v[s].k
            county == electionData[y].v[s].v[c]
            key == CalcStorageKey(stateName, county.k)
            yearResults == MapGetOr(countyResults, year, <<>>)
        IN  /\ MapHas(yearResults, key)
            /\ MapGet(yearResults, key).state = stateName
            /\ MapGet(yearResults, key).candidates = county.v

\* The rows of the file of one year that carry a ten-character Rhode Island
\* town code with the given first five characters
TownRows(year, prefix) ==
  {i \in 1..Len(csvFile) :
     /\ csvFile[i].year = year
     /\ csvFile[i].state = "RHODE ISLAND"
     /\ Len(csvFile[i].county_fips) = 10
     /\ Substring(csvFile[i].county_fips, 0, 5) = prefix}

\* Sum of the votes of a party over the rows of a set
RowSum(rows, party) ==
  SumOver([i \in 1..Len(csvFile) |->
             IF i \in rows /\ normalizeParty(csvFile[i].party) = party
             THEN ParseInt(csvFile[i].candidatevotes).val ELSE 0],
          Len(csvFile), 1)

\* C13: no Rhode Island CountyResult is stored under a ten-character town
\* code; once a year's Rhode Island rows are aggregated, the rows of all the
\* town codes that share their first five characters are in one CountyResult
\* under those five characters, whose tally is, party by party, the sum of
\* the votes of those rows.
C13_RhodeIslandTownsAccumulate ==
  \A year \in Years :
    LET cr == MapGetOr(countyResults, year, <<>>)
    IN  /\ \A i \in 1..Len(cr) :
             cr[i].v.state = "RHODE ISLAND" => Len(cr[i].k) # 10
        /\ (year \in processedYears \/ <<year, "RHODE ISLAND">> \in processedStateData)
             => \A r \in 1..Len(csvFile) :
                  LET prefix == Substring(csvFile[r].county_fips, 0, 5)
                      rows   == TownRows(year, prefix)
                  IN  r \in rows
                        => /\ MapHas(cr, prefix)
                           /\ MapGet(cr, prefix).state = "RHODE ISLAND"
                           /\ Parties(MapGet(cr, prefix).votes)
                                = {normalizeParty(csvFile[i].party) : i \in rows}
                           /\ \A party \in Parties(MapGet(cr, prefix).votes) :
                                VotesOf(MapGet(cr, prefix).votes, party)
                                  = RowSum(rows, party)

\* Two rows of distinct town codes of one county are in one CountyResult
C13_Witness ==
  /\ \E i, j \in 1..Len(csvFile) :
       /\ csvFile[i].county_fips = Town4400100001
       /\ csvFile[j].county_fips = Town4400100002
       /\ csvFile[j].party = REPUBLICAN
  /\ MapHas(MapGetOr(countyResults, "2024", <<>>), Fips44001)
  /\ VotesOf(MapGet(MapGet(countyResults, "2024"), Fips44001).votes, REPUBLICAN) = 3

\* The CountyResult stored under the storage key of a county-year t of
\* StoredCounties
ResultOf(t) ==
  MapGet(MapGet(countyResults, t[1]), CalcStorageKey(t[2], t[3]))

\* The stored CountyResult is the one computed from the county-year t
IsResultOf(t) ==
  /\ MapHas(MapGetOr(countyResults, t[1], <<>>), CalcStorageKey(t[2], t[3]))
  /\ ResultOf(t).state = t[2]
  /\ ResultOf(t).candidates = t[4]

\* The reporting modes of a county-year that list the party
ModesListing(modes, party) ==
  {i \in 1..Len(modes) : MapHas(modes[i].v, party)}

\* C14 as stated: in every stored CountyResult each party's tally is the
\* party's votes of one single reporting mode of the county-year.
C14_TallyFromOneMode ==
  \A t \in StoredCounties :
    LET modes == ModesOf(t[1], t[2], t[3])
    IN  IsResultOf(t)
          => \A party \in Parties(ResultOf(t).votes) :
               \E i \in ModesListing(modes, party) :
                 VotesOf(ResultOf(t).votes, party) = VotesOf(modes[i].v, party)

\* The modes a county-year's tally draws from: the one aggregate mode when
\* there is one, every mode otherwise
ModesDrawn(modes) ==
  IF MapHas(modes, "TOTAL VOTES") THEN {MapIndex(modes, "TOTAL VOTES")}
  ELSE IF MapHas(modes, "TOTAL") THEN {MapIndex(modes, "TOTAL")}
  ELSE 1..Len(modes)

\* C14, amended: in every stored CountyResult each party's tally draws from
\* exactly one reporting mode when the county-year has a "TOTAL VOTES" or a
\* "TOTAL" mode; otherwise it is the sum of the party's votes over the
\* county-year's modes, every mode counted once.
C14_TallyFromOneModeOrEachOnce ==
  \A t \in StoredCounties :
    LET modes == ModesOf(t[1], t[2], t[3])
        drawn == ModesDrawn(modes)
    IN  IsResultOf(t)
          => LET votes == ResultOf(t).votes
             IN  /\ Parties(votes) = UNION {Parties(modes[i].v) : i \in drawn}
                 /\ \A party \in Parties(votes) :
                      VotesOf(votes, party)
                        = SumOver([i \in 1..Len(modes) |->
                                     IF i \in drawn THEN VotesOf(modes[i].v, party)
                                     ELSE 0],
                                  Len(modes), 1)
                 /\ (MapHas(modes, "TOTAL VOTES") \/ MapHas(modes, "TOTAL"))
                      => Cardinality(drawn) = 1

\* A stored tally that is the sum of the party's votes of two component modes
C14_Witness ==
  /\ \E t \in StoredCounties :
       LET modes == ModesOf(t[1], t[2], t[3])
       IN  /\ MapKeys(modes) = <<"ELECTION DAY", "ABSENTEE">>
           /\ IsResultOf(t)
           /\ VotesOf(ResultOf(t).votes, REPUBLICAN) = 3

(***************************************************************************)
(* Winner Resolver: claims C15 and C16                                     *)
(***************************************************************************)
\* Most parties of a tally handed to determineWinner
MaxParties == 3

\* Largest vote count of a tally handed to determineWinner
MaxVotes == 2

PartyNames == {REPUBLICAN, DEMOCRAT, <<"G","R","E","E","N">>}

\* The party -> votes Maps of at most MaxParties parties: distinct keys in
\* any insertion order, counts 0..MaxVotes
Tallies ==
  {votes \in UNION {[1..n -> [k : PartyNames, v : 0..MaxVotes]] : n \in 0..MaxParties} :
     \A i, j \in DOMAIN votes : votes[i].k = votes[j].k => i = j}

\* A call of determineWinner(votes): nothing of the object changes
DetermineWinner(votes) ==
  /\ lastCall' = [op |-> "determineWinner", votes |-> votes,
                  result |-> determineWinner(votes)]
  /\ UNCHANGED <<external, navigation, renderCaches, rawCsvData, currentYear, results, processedYears,
                 processedStateData, countyFipsCache, yearRuns, stateRuns>>

NextWinner == \E votes \in Tallies : DetermineWinner(votes)

InitWinner == InitWith({World(PoolDistricts, MaxFewRows, {"ALASKA"}, {})})

\* The constructed object with determineWinner called on arbitrary tallies
SpecWinner == InitWinner /\ [][NextWinner]_vars

\* The largest count of a non-empty tally
MaxOf(votes) ==
  CHOOSE m \in {votes[i].v : i \in DOMAIN votes} :
    \A i \in DOMAIN votes : votes[i].v <= m

\* The result is the first party, in insertion order, with the largest count
FirstWithMaximum(votes, result) ==
  /\ votes # <<>>
  /\ \E i \in DOMAIN votes :
       /\ votes[i].k = result
       /\ votes[i].v = MaxOf(votes)
       /\ \A j \in 1..(i - 1) : votes[j].v < MaxOf(votes)

\* C15 as stated: determineWinner returns a party whose vote count is the
\* maximum of the tally, the first such party in insertion order.
C15_WinnerIsFirstMaximum ==
  lastCall.op = "determineWinner"
    => FirstWithMaximum(lastCall.votes, lastCall.result)

\* C15, amended: for a tally in which some party has a nonzero vote count,
\* determineWinner returns a party whose vote count is the maximum of the
\* tally, the first such party in insertion order.
C15_WinnerIsFirstMaximumOfNonzero ==
  (/\ lastCall.op = "determineWinner"
   /\ \E i \in DOMAIN lastCall.votes : lastCall.votes[i].v > 0)
    => FirstWithMaximum(lastCall.votes, lastCall.result)

\* Two parties share the maximum 2 and the first of them is returned, though
\* it is neither the first nor the last party of the tally
C15_Witness ==
  /\ lastCall.op = "determineWinner"
  /\ Len(lastCall.votes) = 3
  /\ lastCall.votes[1].v = 1
  /\ lastCall.votes[2].v = 2
  /\ lastCall.votes[3].v = 2
  /\ lastCall.result = lastCall.votes[2].k

\* The winner recorded with a tally is the sentinel exactly when the tally
\* has no nonzero count, and otherwise a party of the tally with a nonzero
\* count
WinnerAgrees(result) ==
  LET nonzero == {i \in DOMAIN result.votes : result.votes[i].v # 0}
  IN  /\ result.winner = UNKNOWN <=> nonzero = {}
      /\ result.winner # UNKNOWN
           => \E i \in nonzero : result.votes[i].k = result.winner

\* C16: in every stored CountyResult and StateResult the winner is UNKNOWN
\* exactly when the tally is empty or all its votes are zero; otherwise the
\* winner is a party of the tally with a nonzero vote count.
C16_WinnerUnknownIffNoVotes ==
  /\ \A y \in 1..Len(countyResults) : \A i \in 1..Len(countyResults[y].v) :
       WinnerAgrees(countyResults[y].v[i].v)
  /\ \A y \in 1..Len(stateResults) : \A i \in 1..Len(stateResults[y].v) :
       WinnerAgrees(stateResults[y].v[i].v)

\* A county and its state stored with a one-vote tally and its party as winner
C16_Witness ==
  \E y \in 1..Len(countyResults) : \E i \in 1..Len(countyResults[y].v) :
    LET result == countyResults[y].v[i].v
        year   == countyResults[y].k
    IN  /\ result.votes = <<[k |-> REPUBLICAN, v |-> 1]>>
        /\ result.winner = REPUBLICAN
        /\ MapHas(MapGetOr(stateResults, year, <<>>), result.state)
        /\ MapGet(MapGet(stateResults, year), result.state).winner = REPUBLICAN

(***************************************************************************)
(* Row validation: claims C17 and C18                                      *)
(***************************************************************************)
\* The rows of the file that are none of the malformed rows
WellFormedRows ==
  {i \in 1..Len(csvFile) : csvFile[i] \notin BadFieldRows \cup BadCandidateRows}

\* The county ids the well-formed rows of a year carry
WellFormedCounties(year) ==
  {RowCounty(csvFile[i]) : i \in {j \in WellFormedRows : csvFile[j].year = year}}

\* The county keys of the accumulator of a year
AccumulatorCounties(year) ==
  UNION {{MapGet(electionData, year)[s].v[c].k :
            c \in 1..Len(MapGet(electionData, year)[s].v)} :
           s \in 1..Len(MapGetOr(electionData, year, <<>>))}

\* The storage key the CountyResult of a row's county is kept under
RowKey(d) == CalcStorageKey(d.state, RowCounty(d))

C18_NoEmptyParty ==
  /\ \A y \in 1..Len(countyResults) : \A i \in 1..Len(countyResults[y].v) :
       <<>> \notin Parties(countyResults[y].v[i].v.votes)
  /\ \A y \in 1..Len(stateResults) : \A i \in 1..Len(stateResults[y].v) :
       <<>> \notin Parties(stateResults[y].v[i].v.votes)
  /\ \A year \in Years :
       AccumulatorCounties(year)
         \subseteq {RowCounty(csvFile[i]) :
                      i \in {j \in WellFormedRows : /\ csvFile[j].year = year
                                                    /\ csvFile[j].party # <<>>}}

(***************************************************************************)
(* Performance caches: claims C19 and C20                                  *)
(***************************************************************************)
\* countyFipsCache after findCountyFips was called for each of the topology
\* ids of a state: the outcomes of the ids not yet cached are added
CacheLookups(topoIds, stateName) ==
  LET new == {<<currentYear, stateName, topoId>> : topoId \in topoIds}
               \ DOMAIN countyFipsCache
  IN  IF new = {} THEN countyFipsCache
      ELSE [key \in new |-> findCountyFips(key[3], key[2])] @@ countyFipsCache

\* findCountyFips(topoId, stateName), called on the instance: lastCall
\* keeps the key and the value returned
FindCountyFipsCall(topoId, stateName) ==
  /\ topoId \in getStateCounties(stateName)
  /\ countyFipsCache' = CacheLookups({topoId}, stateName)
  /\ lastCall' = [op |-> "findCountyFips",
                  key |-> <<currentYear, stateName, topoId>>,
                  result |-> findCountyFips(topoId, stateName)]
  /\ UNCHANGED <<external, navigation, renderCaches, rawCsvData, currentYear, results,
                 processedYears, processedStateData, yearRuns, stateRuns>>

\* The two caches getStateCounties(stateName) fills on a miss: the features
\* of the state, and (preComputeCountyPaths) a path for each of them
CacheStateCounties(stateName) ==
  IF stateName \in DOMAIN stateCountiesCache
  THEN UNCHANGED <<stateCountiesCache, countyPathCache>>
  ELSE /\ stateCountiesCache' =
            (stateName :> getStateCounties(stateName)) @@ stateCountiesCache
       /\ countyPathCache' =
            IF stateName \in DOMAIN countyPathCache THEN countyPathCache
            ELSE (stateName :> getStateCounties(stateName)) @@ countyPathCache

\* getStateCounties(stateName)
GetStateCounties(stateName) ==
  /\ CacheStateCounties(stateName)
  /\ UNCHANGED <<external, navigation, rawCsvData, currentYear, results, processedYears,
                 processedStateData, countyFipsCache, fipsMatchCache,
                 countyBoundsCache, lastRenderedCounty, yearRuns, stateRuns, lastCall>>

\* What renderStatewideView() with currentState = stateName does to the
\* caches and the county marker
DoRenderStatewideView(stateName) ==
  /\ lastRenderedCounty' = <<>>
  /\ CacheStateCounties(stateName)
  /\ countyFipsCache' = CacheLookups(getStateCounties(stateName), stateName)
  /\ UNCHANGED <<fipsMatchCache, countyBoundsCache>>

\* renderStatewideView() with currentState = stateName
RenderStatewideView(stateName) ==
  /\ DoRenderStatewideView(stateName)
  /\ UNCHANGED <<external, navigation, rawCsvData, currentYear, results, processedYears,
                 processedStateData, yearRuns, stateRuns, lastCall>>

\* renderCountyView() found the feature of the selected county and drew the
\* counties (it did not stop at its console.error)
CountyDrawn(stateName, county) ==
  \E topoId \in getStateCounties(stateName) :
    /\ findCountyFips(topoId, stateName).found
    /\ findCountyFips(topoId, stateName).format = county

\* What renderCountyView() with currentState = stateName and currentCounty =
\* county does to the caches and the county marker
DoRenderCountyView(stateName, county) ==
  /\ countyFipsCache' = CacheLookups(getStateCounties(stateName), stateName)
  /\ IF lastRenderedCounty = <<stateName, county>>
     THEN UNCHANGED renderCaches
     ELSE /\ CacheStateCounties(stateName)
          /\ IF CountyDrawn(stateName, county)
             THEN /\ countyBoundsCache' = countyBoundsCache \cup {<<stateName, county>>}
                  /\ lastRenderedCounty' = <<stateName, county>>
             ELSE UNCHANGED <<countyBoundsCache, lastRenderedCounty>>
          /\ UNCHANGED fipsMatchCache

\* renderCountyView() with currentState = stateName, currentCounty = county
RenderCountyView(stateName, county) ==
  /\ DoRenderCountyView(stateName, county)
  /\ UNCHANGED <<external, navigation, rawCsvData, currentYear, results, processedYears,
                 processedStateData, yearRuns, stateRuns, lastCall>>

RECURSIVE ResultScan(_, _, _, _, _)
\* The for loop of findCountyResult: result keeps the value of the last
\* format tried when no format gives a result of the state
ResultScan(formats, i, state, yearResults, result) ==
  IF i > Len(formats) THEN result
  ELSE LET got == IF MapHas(yearResults, formats[i])
                  THEN [found |-> TRUE, result |-> MapGet(yearResults, formats[i])]
                  ELSE [found |-> FALSE]
       IN  IF got.found /\ got.result.state = state THEN got
           ELSE ResultScan(formats, i + 1, state, yearResults, got)

\* findCountyResult(topoId, state, year)
findCountyResult(topoId, state, year) ==
  LET cacheKey == <<year, state, topoId>>
      formats  == <<topoId,
                    NumberToString(ParseInt(topoId)),
                    SubstringFrom(topoId, 2),
                    NumberToString(ParseInt(SubstringFrom(topoId, 2)))>>
  IN  IF cacheKey \in DOMAIN fipsMatchCache THEN fipsMatchCache[cacheKey]
      ELSE ResultScan(formats, 1, state, MapGetOr(countyResults, year, <<>>),
                      [found |-> FALSE])

FindCountyResult(topoId, state, year) ==
  LET cacheKey == <<year, state, topoId>>
  IN  /\ fipsMatchCache' =
           IF cacheKey \in DOMAIN fipsMatchCache THEN fipsMatchCache
           ELSE (cacheKey :> findCountyResult(topoId, state, year)) @@ fipsMatchCache
      /\ UNCHANGED <<external, navigation, rawCsvData, currentYear, results, processedYears,
                     processedStateData, countyFipsCache, stateCountiesCache,
                     countyPathCache, countyBoundsCache, lastRenderedCounty,
                     yearRuns, stateRuns, lastCall>>

\* Mutant of ClearPerformanceCaches: countyBoundsCache is left as it is
ClearPerformanceCaches_KeepsBounds ==
  /\ stateCountiesCache' = <<>>
  /\ countyFipsCache' = <<>>
  /\ fipsMatchCache' = <<>>
  /\ countyPathCache' = <<>>
  /\ UNCHANGED <<external, navigation, rawCsvData, currentYear, results, processedYears,
                 processedStateData, countyBoundsCache, lastRenderedCounty,
                 yearRuns, stateRuns, lastCall>>

\* clearPerformanceCaches()
ClearPerformanceCaches ==
  /\ stateCountiesCache' = <<>>
  /\ countyFipsCache' = <<>>
  /\ fipsMatchCache' = <<>>
  /\ countyPathCache' = <<>>
  /\ countyBoundsCache' = {}
  /\ UNCHANGED <<external, navigation, rawCsvData, currentYear, results, processedYears,
                 processedStateData, lastRenderedCounty, yearRuns, stateRuns, lastCall>>

\* The county a county view is asked for
CountyKeys == {Fips13209, Fips13211}

\* The result store together with the renderer's cached operations
NextCaches ==
  \/ NextStore
  \/ \E stateName \in stateNames : \E topoId \in countiesTopology :
       FindCountyFipsCall(topoId, stateName)
  \/ \E stateName \in stateNames : GetStateCounties(stateName)
  \/ \E stateName \in stateNames : RenderStatewideView(stateName)
  \/ \E stateName \in stateNames : \E county \in CountyKeys :
       RenderCountyView(stateName, county)
  \/ \E stateName \in stateNames : \E topoId \in countiesTopology : \E year \in Years :
       FindCountyResult(topoId, stateName, year)
  \/ ClearPerformanceCaches

\* A row of Morgan County, Georgia, under 13209 in 2024, and a row of
\* another state in 2020 whose county id is the county part of the
\* topology's id of Morgan County
PoolCaches ==
  {Row("2024", "GEORGIA", Fips13209, "MORGAN", REPUBLICAN, Txt2, "TOTAL"),
   Row("2020", "ALABAMA", <<"2","1","1">>, "COUNTY 211", DEMOCRAT, Txt1, "TOTAL")}

\* Longest row table in the worlds of the cache properties
MaxCacheRows == 1

InitCaches == InitWith({World(PoolCaches, MaxCacheRows, {"GEORGIA"}, {Fips13211})})

\* Every order of loading, aggregation, lookups, renderings and cache clears
SpecCaches == InitCaches /\ [][NextCaches]_vars

\* C19: every outcome of findCountyFips, a failed one too, is in
\* countyFipsCache under <<year, state, topology id>> once the lookup
\* returns; a lookup of a key already cached returns the cached outcome, the
\* one of the first lookup; and no step other than clearPerformanceCaches
\* changes or removes an entry.
C19_MatchCacheMemoizes ==
  [][/\ ~ClearPerformanceCaches
          => \A key \in DOMAIN countyFipsCache :
               /\ key \in DOMAIN countyFipsCache'
               /\ countyFipsCache'[key] = countyFipsCache[key]
     /\ \A stateName \in stateNames : \A topoId \in countiesTopology :
          FindCountyFipsCall(topoId, stateName)
            => LET key == <<currentYear, stateName, topoId>>
               IN  /\ key \in DOMAIN countyFipsCache'
                   /\ countyFipsCache'[key] = lastCall'.result
                   /\ key \in DOMAIN countyFipsCache
                        => lastCall'.result = countyFipsCache[key]]_vars

\* A failed lookup is cached for the current year, and the results stored
\* since then hold the county: a repeated lookup still returns "no match"
C19_Witness ==
  \E key \in DOMAIN countyFipsCache :
    /\ key[1] = currentYear
    /\ ~countyFipsCache[key].found
    /\ ~findCountyFips(key[3], key[2]).found
    /\ TryFormats(Formats(key[3], key[2]), 1, key[2],
                  MapGetOr(countyResults, currentYear, <<>>)).found

\* The five caches clearPerformanceCaches empties are empty
CachesEmpty ==
  /\ DOMAIN countyFipsCache = {}
  /\ DOMAIN fipsMatchCache = {}
  /\ DOMAIN stateCountiesCache = {}
  /\ DOMAIN countyPathCache = {}
  /\ countyBoundsCache = {}

\* Every entry of the cache before the step is in the cache after it, unchanged
Kept(cache, cacheAfter) ==
  \A key \in DOMAIN cache : key \in DOMAIN cacheAfter /\ cacheAfter[key] = cache[key]

\* C20: a step either leaves none of the entries of the five caches behind
\* (countyFipsCache, fipsMatchCache, stateCountiesCache, countyPathCache and
\* countyBoundsCache are all empty after it), or it keeps every entry of
\* every cache: no step removes or changes some entries and keeps others.
C20_CachesClearedTogether ==
  [][\/ CachesEmpty'
     \/ /\ Kept(countyFipsCache, countyFipsCache')
        /\ Kept(fipsMatchCache, fipsMatchCache')
        /\ Kept(stateCountiesCache, stateCountiesCache')
        /\ Kept(countyPathCache, countyPathCache')
        /\ countyBoundsCache \subseteq countyBoundsCache']_vars

\* The five caches are empty after a county view was rendered, which filled
\* the caches of features, paths, matches and bounds: they were cleared
C20_Witness ==
  /\ CachesEmpty
  /\ lastRenderedCounty # <<>>

(***************************************************************************)
(* Navigation Controller                                                   *)
(***************************************************************************)
\* What lastCall keeps of a navigation call: whether it returned at its
\* first line
Navigation(op, skipped) == [op |-> op, skipped |-> skipped]

\* The body of navigateToNational()
DoNavigateToNational ==
  IF currentLevel = "national"
  THEN UNCHANGED <<location, navigationTimer>>
  ELSE /\ currentLevel' = "national"
       /\ currentState' = Null
       /\ currentCounty' = NoCounty
       /\ PerformNavigation

\* navigateToNational(), which the national breadcrumb calls
NavigateToNational ==
  /\ DoNavigateToNational
  /\ lastCall' = Navigation("navigateToNational",
                            currentLevel = "national")
  /\ UNCHANGED <<external, viewTimer, loading, page, renderCaches, countyFipsCache,
                 rawCsvData, currentYear, results, processedYears,
                 processedStateData, yearRuns, stateRuns>>

\* navigateToState(stateName) returns at its first line
StateShown(stateName) == currentLevel = "state" /\ currentState = stateName

\* navigateToState(stateName)
NavigateToState(stateName) ==
  /\ IF StateShown(stateName)
     THEN UNCHANGED <<location, navigationTimer>>
     ELSE /\ currentLevel' = "state"
          /\ currentState' = stateName
          /\ currentCounty' = NoCounty
          /\ PerformNavigation
  /\ lastCall' = Navigation("navigateToState",
                            StateShown(stateName))
  /\ UNCHANGED <<external, viewTimer, loading, page, renderCaches, countyFipsCache,
                 rawCsvData, currentYear, results, processedYears,
                 processedStateData, yearRuns, stateRuns>>

\* navigateToStatewide(stateName) returns at its first line
StatewideShown(stateName) == currentLevel = "statewide" /\ currentState = stateName

\* Mutant of DoNavigateToStatewide: the first line is left out
DoNavigateToStatewide_NoSkip(stateName) ==
  /\ currentLevel' = "statewide"
  /\ currentState' = stateName
  /\ currentCounty' = NoCounty
  /\ DoProcessStateCountyData(currentYear, stateName)
  /\ PerformNavigation

\* The body of navigateToStatewide(stateName): the navigation state is set,
\* the state's counties are processed, then performNavigation()
DoNavigateToStatewide(stateName) ==
  IF StatewideShown(stateName)
  THEN UNCHANGED <<location, navigationTimer, electionData, countyResults,
                   processedStateData, stateRuns>>
  ELSE /\ currentLevel' = "statewide"
       /\ currentState' = stateName
       /\ currentCounty' = NoCounty
       /\ DoProcessStateCountyData(currentYear, stateName)
       /\ PerformNavigation

\* navigateToStatewide(stateName)
NavigateToStatewide(stateName) ==
  /\ DoNavigateToStatewide(stateName)
  /\ lastCall' = Navigation("navigateToStatewide",
                            StatewideShown(stateName))
  /\ UNCHANGED <<external, viewTimer, loading, page, renderCaches, countyFipsCache,
                 rawCsvData, currentYear, stateResults, processedYears, yearRuns>>

\* navigateToCounty(stateName, countyFips) returns at its first line
CountyShown(stateName, countyFips) ==
  currentLevel = "county" /\ currentState = stateName /\ currentCounty = countyFips

\* The body of navigateToCounty(stateName, countyFips)
DoNavigateToCounty(stateName, countyFips) ==
  IF CountyShown(stateName, countyFips)
  THEN UNCHANGED <<location, navigationTimer, electionData, countyResults,
                   processedStateData, stateRuns>>
  ELSE /\ currentLevel' = "county"
       /\ currentState' = stateName
       /\ currentCounty' = countyFips
       /\ DoProcessStateCountyData(currentYear, stateName)
       /\ PerformNavigation

\* navigateToCounty(stateName, countyFips)
NavigateToCounty(stateName, countyFips) ==
  /\ DoNavigateToCounty(stateName, countyFips)
  /\ lastCall' = Navigation("navigateToCounty",
                            CountyShown(stateName, countyFips))
  /\ UNCHANGED <<external, viewTimer, loading, page, renderCaches, countyFipsCache,
                 rawCsvData, currentYear, stateResults, processedYears, yearRuns>>

\* The click listener of the state breadcrumb
BreadcrumbStateClick ==
  /\ currentState # Null
  /\ NavigateToState(currentState)

\* The click listener of the statewide breadcrumb
BreadcrumbStatewideClick ==
  /\ currentState # Null
  /\ NavigateToStatewide(currentState)

\* Mutant of DrillUp: the county level returns to the state level
DrillUp_SkipsStatewide ==
  \/ /\ currentLevel = "county"
     /\ NavigateToState(currentState)
  \/ /\ currentLevel = "statewide"
     /\ NavigateToState(currentState)
  \/ /\ currentLevel = "state"
     /\ NavigateToNational

\* drillUp(), the click listener of the drill-up button, below the national
\* level
DrillUp ==
  \/ /\ currentLevel = "county"
     /\ NavigateToStatewide(currentState)
  \/ /\ currentLevel = "statewide"
     /\ NavigateToState(currentState)
  \/ /\ currentLevel = "state"
     /\ NavigateToNational

\* The click handler renderNationalView() gives the path of a state
NationalViewStateClick(stateName) ==
  /\ mapView.level = "national"
  /\ NavigateToState(stateName)

\* The click handler renderStateView() gives the path of the state
StateViewClick ==
  /\ mapView.level = "state"
  /\ NavigateToStatewide(currentState)

\* countyFips in the click handler renderStatewideView() gives the path of a
\* county: the format of the lookup made when the view was drawn or, in
\* Alaska, the topology id when the current year has a result under it;
\* NoCounty when the handler finds neither
ClickedFips(topoId) ==
  LET lookup == countyFipsCache[<<mapView.lookupsYear, mapView.state, topoId>>]
      yearResults == MapGetOr(countyResults, currentYear, <<>>)
  IN  IF lookup.found THEN lookup.format
      ELSE IF /\ currentState = "ALASKA"
              /\ MapHas(yearResults, topoId)
              /\ MapGet(yearResults, topoId).state = currentState
           THEN topoId
           ELSE NoCounty

\* A click on the path of a county the map shows: a path
\* renderStatewideView() created navigates to the county, in the state the
\* navigation state names at the click, when the handler has its key; a path
\* renderCountyView() created only stops the event
CountyPathClick(topoId) ==
  /\ mapView.handlers # "none"
  /\ topoId \in getStateCounties(mapView.state)
  /\ mapView.handlers = "statewide"
       => <<mapView.lookupsYear, mapView.state, topoId>> \in DOMAIN countyFipsCache
  /\ IF mapView.handlers = "statewide" /\ ClickedFips(topoId) # NoCounty
     THEN NavigateToCounty(currentState, ClickedFips(topoId))
     ELSE /\ lastCall' = [op |-> "countyPathClick", handlers |-> mapView.handlers]
          /\ UNCHANGED <<external, navigation, renderCaches, countyFipsCache,
                         rawCsvData, currentYear, results, processedYears,
                         processedStateData, yearRuns, stateRuns>>

\* handleResize(): the map is drawn again
HandleResize ==
  /\ UpdateCurrentView
  /\ UNCHANGED <<external, location, navigationTimer, loading, page, renderCaches,
                 countyFipsCache, rawCsvData, currentYear, results, processedYears,
                 processedStateData, yearRuns, stateRuns, lastCall>>

(***************************************************************************)
(* Timers, animation frames and rendering                                  *)
(***************************************************************************)
\* A timer of performNavigation fires and the animation frame its callback
\* requests runs: updateCurrentView(), updateSidebar(), updateBreadcrumb()
NavigationTimerFires ==
  /\ navigationTimers > 0
  /\ navigationTimers' = navigationTimers - 1
  /\ navigationTimeout' =
       IF navigationTimers = 1 /\ navigationTimeout = "pending" THEN "fired"
       ELSE navigationTimeout
  /\ UpdateCurrentView
  /\ errorShown' = FALSE
  /\ breadcrumb' = location
  /\ UNCHANGED <<external, location, loading, mapView, renderCaches,
                 countyFipsCache, rawCsvData, currentYear, results, processedYears,
                 processedStateData, yearRuns, stateRuns, lastCall>>

\* The click handlers of the county paths after renderCountyView() drew the
\* counties of stateName: the paths the map had for the state keep theirs, the
\* paths it creates get its own
HandlersKept(stateName) ==
  IF mapView.handlers # "none" /\ mapView.state = stateName
  THEN [handlers |-> mapView.handlers, lookupsYear |-> mapView.lookupsYear]
  ELSE [handlers |-> "county", lookupsYear |-> ""]

\* The timer of updateCurrentView fires and the animation frame its callback
\* requests runs: the render function of the current level
DebounceTimerFires ==
  /\ debounceTimeout = "pending"
  /\ debounceTimeout' = "fired"
  /\ \/ /\ currentLevel = "national"
        /\ lastRenderedCounty' = <<>>
        /\ mapView' = IF topology = "none" THEN Blank ELSE NationalView("frame")
        /\ UNCHANGED <<location, navigationTimer, countyFipsCache, fipsMatchCache,
                       stateCountiesCache, countyPathCache, countyBoundsCache>>
     \/ /\ currentLevel = "state"
        /\ lastRenderedCounty' = <<>>
        /\ mapView' = IF topology = "none" \/ currentState \notin stateNames
                      THEN Blank
                      ELSE Drawn("frame", "state", currentState, NoCounty,
                                 currentYear, "none", "")
        /\ UNCHANGED <<location, navigationTimer, countyFipsCache, fipsMatchCache,
                       stateCountiesCache, countyPathCache, countyBoundsCache>>
     \/ /\ currentLevel = "statewide"
        /\ topology # "all"
        /\ lastRenderedCounty' = <<>>
        /\ mapView' = Blank
        /\ UNCHANGED <<location, navigationTimer, countyFipsCache, fipsMatchCache,
                       stateCountiesCache, countyPathCache, countyBoundsCache>>
     \/ /\ currentLevel = "statewide"
        /\ topology = "all"
        /\ DoRenderStatewideView(currentState)
        /\ IF getStateCounties(currentState) = {}
           THEN /\ mapView' = Blank
                /\ DoNavigateToNational
           ELSE /\ mapView' = Drawn("frame", "statewide", currentState, NoCounty,
                                    currentYear, "statewide", currentYear)
                /\ UNCHANGED <<location, navigationTimer>>
     \/ /\ currentLevel = "county"
        /\ topology # "all"
        /\ UNCHANGED <<location, navigationTimer, mapView, renderCaches,
                       countyFipsCache>>
     \/ /\ currentLevel = "county"
        /\ topology = "all"
        /\ DoRenderCountyView(currentState, currentCounty)
        /\ mapView' =
             IF /\ lastRenderedCounty # <<currentState, currentCounty>>
                /\ CountyDrawn(currentState, currentCounty)
             THEN Drawn("frame", "county", currentState, currentCounty, currentYear,
                        HandlersKept(currentState).handlers,
                        HandlersKept(currentState).lookupsYear)
             ELSE mapView
        /\ UNCHANGED <<location, navigationTimer>>
  /\ UNCHANGED <<external, loading, errorShown, breadcrumb, rawCsvData, currentYear,
                 results, processedYears, processedStateData, yearRuns, stateRuns,
                 lastCall>>

(***************************************************************************)
(* Failing loads                                                           *)
(***************************************************************************)
\* showError(message)
ShowError == errorShown' = TRUE

\* loadTopology(), awaited by init(), throws: neither file, or only the
\* states, arrived; the catch block of init() shows the error
LoadTopologyFails ==
  /\ initPhase = "topology"
  /\ topology' \in {"none", "states"}
  /\ initPhase' = "failed"
  /\ ShowError
  /\ UNCHANGED <<external, location, navigationTimer, viewTimer, mapView, breadcrumb,
                 renderCaches, countyFipsCache, rawCsvData, currentYear, results,
                 processedYears, processedStateData, yearRuns, stateRuns, lastCall>>

\* Mutant of LoadElectionDataFails: the catch block of init() shows nothing
LoadElectionDataFails_Silent ==
  /\ initPhase = "rows"
  /\ initPhase' = "failed"
  /\ UNCHANGED <<external, location, navigationTimer, viewTimer, topology, page,
                 renderCaches, countyFipsCache, rawCsvData, currentYear,
                 results, processedYears, processedStateData, yearRuns, stateRuns,
                 lastCall>>

\* loadElectionData(), awaited by init(), throws: the table did not arrive;
\* the catch block of init() shows the error
LoadElectionDataFails ==
  /\ initPhase = "rows"
  /\ initPhase' = "failed"
  /\ ShowError
  /\ UNCHANGED <<external, location, navigationTimer, viewTimer, topology, mapView,
                 breadcrumb, renderCaches, countyFipsCache, rawCsvData, currentYear,
                 results, processedYears, processedStateData, yearRuns, stateRuns,
                 lastCall>>

Fips13001 == <<"1","3","0","0","1">>

\* The map shows the state the navigation state names: no navigation away
\* from the state is waiting for its frame
MapShowsCurrentState == mapView.state = currentState

\* The page as its user drives it: init() with loads that succeed or fail,
\* the listeners and click handlers, the timers and the frames; the user
\* clicks on the paths of a state once the map shows the current state
NextPage ==
  \/ LoadTopology
  \/ LoadTopologyFails
  \/ LoadElectionData
  \/ LoadElectionDataFails
  \/ \E year \in Years : YearSelectChange(year)
  \/ HandleResize
  \/ NavigateToNational
  \/ BreadcrumbStateClick
  \/ BreadcrumbStatewideClick
  \/ DrillUp
  \/ \E stateName \in stateNames : NationalViewStateClick(stateName)
  \/ MapShowsCurrentState /\ StateViewClick
  \/ \E topoId \in countiesTopology : MapShowsCurrentState /\ CountyPathClick(topoId)
  \/ NavigationTimerFires
  \/ DebounceTimerFires

\* Rows of two counties of Georgia in 2024, one of them under the corrected
\* id, and a row of the first in 2020
PoolPage ==
  {Row("2024", "GEORGIA", Fips13209, "MORGAN", REPUBLICAN, Txt2, "TOTAL"),
   Row("2024", "GEORGIA", Fips13001, "APPLING", DEMOCRAT, Txt1, "TOTAL"),
   Row("2020", "GEORGIA", Fips13209, "MORGAN", DEMOCRAT, Txt1, "TOTAL")}

\* Longest row table in the worlds of the page
MaxPageRows == 1

InitPage ==
  InitWith({World(PoolPage, MaxPageRows, {"GEORGIA"}, {Fips13211, Fips13001})})

\* The page under every order of loads, events, timers and frames
SpecPage == InitPage /\ [][NextPage]_vars

(***************************************************************************)
(* Load granularities: claims C21 and C23                                  *)
(***************************************************************************)
\* C21: whole-year processing computes no county-level results: a
\* CountyResult of state S in year y is stored only once
\* processStateCountyData(y, S) has run.
C21_YearProcessingComputesNoCounties ==
  \A y \in 1..Len(countyResults) : \A i \in 1..Len(countyResults[y].v) :
    <<countyResults[y].k, countyResults[y].v[i].v.state>> \in processedStateData

\* The rows of the file of one year and state that the row checks accept
AcceptedRows(year, stateName) ==
  {i \in 1..Len(csvFile) : /\ csvFile[i].year = year
                           /\ csvFile[i].state = stateName
                           /\ ~SkipRow(csvFile[i])}

\* C23: when processYearData(y) completes with the rows loaded, y is marked
\* processed; and for a processed year y, stateResults[y] holds a StateResult
\* for every state with an accepted row in y, whose tally is, party by party,
\* the sum over all the accepted rows of the state and year, and whose winner
\* is that of the tally.
C23_YearProcessingGivesStateResults ==
  /\ [](\A year \in processedYears : \A stateName \in stateNames :
          LET rows == AcceptedRows(year, stateName)
              sr   == MapGetOr(stateResults, year, <<>>)
          IN  rows # {}
                => /\ MapHas(sr, stateName)
                   /\ Parties(MapGet(sr, stateName).votes)
                        = {normalizeParty(csvFile[i].party) : i \in rows}
                   /\ \A party \in Parties(MapGet(sr, stateName).votes) :
                        VotesOf(MapGet(sr, stateName).votes, party) = RowSum(rows, party)
                   /\ MapGet(sr, stateName).winner
                        = determineWinner(MapGet(sr, stateName).votes))
  /\ [][\A year \in Years :
          (/\ rawCsvData'.loaded
           /\ \/ yearRuns'[year] # yearRuns[year]
              \/ /\ lastCall'.op = "processYearData"
                 /\ ~lastCall'.ran
                 /\ lastCall'.year = year)
            => year \in processedYears']_vars

\* A processed year whose state has accepted rows in two counties, both in
\* the state's tally
C23_Witness ==
  /\ "2024" \in processedYears
  /\ Cardinality({RowCounty(csvFile[i]) : i \in AcceptedRows("2024", "ALASKA")}) = 2
  /\ MapHas(MapGetOr(stateResults, "2024", <<>>), "ALASKA")
  /\ Cardinality(Parties(MapGet(MapGet(stateResults, "2024"), "ALASKA").votes)) = 2

(***************************************************************************)
(* findCountyResult: claim C24                                             *)
(***************************************************************************)
\* C24: findCountyResult(topoId, state, year) returns, and caches, either no
\* result or a CountyResult whose recorded state is the requested state.
C24_ResultOfRequestedState ==
  \A key \in DOMAIN fipsMatchCache :
    fipsMatchCache[key].found => fipsMatchCache[key].result.state = key[2]

(***************************************************************************)
(* normalizeParty: claim C26                                               *)
(***************************************************************************)
MaxPartyLen == 3

\* The characters the short party strings are written with
PartyAlphabet == {"g", "O", "p", " ", "L"}

\* Party labels as they appear in the row table, in several spellings
PartyLabels ==
  {<<"R","e","p","u","b","l","i","c","a","n">>,
   <<" ","R","E","P","U","B","L","I","C","A","N"," ","P","A","R","T","Y">>,
   <<"d","e","m","o","c","r","a","t">>,
   <<"D","E","M","O","C","R","A","T","I","C","-","F","A","R","M","E","R","-",
     "L","A","B","O","R">>,
   <<"D","e","m","o","c","r","a","t","i","c","-","R","e","p","u","b","l","i",
     "c","a","n">>,
   <<"D","e","m","o","c","r","a","t"," ","(","G","O","P",")">>,
   <<" ","L","i","b","e","r","t","a","r","i","a","n"," ">>,
   <<"L","I","B","E","R","T","A","R","I","A","N">>,
   <<"G","r","e","e","n">>,
   <<"O","T","H","E","R">>,
   <<"D","E","M","O","C","R","A">>,
   <<"R","E","P","U","B","L","I","K","A","N">>}

\* The strings normalizeParty is applied to
PartyStrings ==
  PartyLabels \cup UNION {[1..n -> PartyAlphabet] : n \in 0..MaxPartyLen}

\* A call of normalizeParty(party), with the returned value
NormalizeParty(party) ==
  /\ lastCall' = [op |-> "normalizeParty", party |-> party,
                  result |-> normalizeParty(party)]
  /\ UNCHANGED <<external, navigation, renderCaches, rawCsvData, currentYear, results,
                 processedYears, processedStateData, countyFipsCache,
                 yearRuns, stateRuns>>

NextParty == \E party \in PartyStrings : NormalizeParty(party)

InitParty == InitWith({World(PoolNoParty, MaxCacheRows, {"GEORGIA"}, {})})

\* The constructed object with normalizeParty called on arbitrary strings
SpecParty == InitParty /\ [][NextParty]_vars

\* pat occurs in t when the case of the letters is ignored
ContainsIgnoringCase(t, pat) ==
  \E i \in 0..(Len(t) - Len(pat)) :
    \A j \in 1..Len(pat) : UpperChar(t[i + j]) = UpperChar(pat[j])

\* C26: normalizeParty maps a party string, ignoring case, to REPUBLICAN when
\* it contains "republican" or "gop", else to DEMOCRAT when it contains
\* "democrat", else to the original string trimmed and in upper case, so that
\* another party keeps its own label.
C26_NormalizePartyMapping ==
  lastCall.op = "normalizeParty" =>
    LET party == lastCall.party
    IN  lastCall.result =
          IF \/ ContainsIgnoringCase(party, REPUBLICAN)
             \/ ContainsIgnoringCase(party, TxtGop)
          THEN REPUBLICAN
          ELSE IF ContainsIgnoringCase(party, DEMOCRAT) THEN DEMOCRAT
          ELSE ToUpperCase(Trim(party))

\* A third-party label in mixed case with blanks around it keeps its name
C26_Witness ==
  /\ lastCall.op = "normalizeParty"
  /\ lastCall.party = <<" ","L","i","b","e","r","t","a","r","i","a","n"," ">>
  /\ lastCall.result = <<"L","I","B","E","R","T","A","R","I","A","N">>

(***************************************************************************)
(* Coherence of the match cache: claim C30                                 *)
(***************************************************************************)
\* C30: once processStateCountyData has computed the results of a state in
\* the current year, findCountyFips returns for every topology id of the
\* state what its loop over the current countyResults returns, a lookup made
\* before the results were computed notwithstanding.
C30_MatchCacheCoherent ==
  \A stateName \in stateNames :
    <<currentYear, stateName>> \in processedStateData =>
      \A topoId \in getStateCounties(stateName) :
        findCountyFips(topoId, stateName)
          = TryFormats(Formats(topoId, stateName), 1, stateName,
                       MapGetOr(countyResults, currentYear, <<>>))

(***************************************************************************)
(* County-level views and lazy processing: claim C22                       *)
(***************************************************************************)
\* C22: a statewide or county view of a state drawn for a year is drawn only
\* once processStateCountyData has marked that year and state processed, after
\* a drill-in as well as after a change of year while such a view is shown.
C22_CountyViewsDrawnAfterProcessing ==
  mapView.level \in {"statewide", "county"}
    => <<mapView.year, mapView.state>> \in processedStateData

(***************************************************************************)
(* Navigation to the location shown: claim C27                             *)
(***************************************************************************)
\* Everything but the record of the last call is left as it was
NothingDone ==
  UNCHANGED <<external, navigation, renderCaches, countyFipsCache, rawCsvData,
              currentYear, results, processedYears, processedStateData,
              yearRuns, stateRuns>>

\* C27: navigateToNational at the national level, navigateToState and
\* navigateToStatewide for the current level and state, and navigateToCounty
\* for the current level, state and county change no navigation state, run no
\* processing and set no timer.
C27_NavigationToShownLocationIsNoOp ==
  [][/\ (NavigateToNational /\ currentLevel = "national") => NothingDone
     /\ \A stateName \in stateNames :
          /\ (NavigateToState(stateName) /\ StateShown(stateName)) => NothingDone
          /\ (NavigateToStatewide(stateName) /\ StatewideShown(stateName))
               => NothingDone
          /\ (/\ NavigateToCounty(stateName, currentCounty)
              /\ CountyShown(stateName, currentCounty)) => NothingDone]_vars

\* navigateToStatewide returned at its first line after the timer of the
\* navigation that led to the statewide level had fired: no timer was set
C27_Witness ==
  /\ lastCall.op = "navigateToStatewide"
  /\ lastCall.skipped
  /\ currentLevel = "statewide"
  /\ navigationTimeout = "fired"
  /\ navigationTimers = 0
  /\ debounceTimeout = "fired"

(***************************************************************************)
(* County-to-county navigation: claim C28                                  *)
(***************************************************************************)
\* The storage key under which the current year holds the results of the
\* county feature topoId of the state shown, NoCounty when it holds none
KeyOfFeature(topoId) ==
  LET lookup == TryFormats(Formats(topoId, mapView.state), 1, mapView.state,
                           MapGetOr(countyResults, currentYear, <<>>))
  IN  IF lookup.found THEN lookup.format ELSE NoCounty

\* A row of Morgan County in 2020 and a row of Appling County in 2024
PoolCounties ==
  {Row("2020", "GEORGIA", Fips13209, "MORGAN", DEMOCRAT, Txt1, "TOTAL"),
   Row("2024", "GEORGIA", Fips13001, "APPLING", REPUBLICAN, Txt2, "TOTAL")}

\* Longest row table in the worlds of county-to-county navigation
MaxCountyRows == 2

InitCounties ==
  InitWith({World(PoolCounties, MaxCountyRows, {"GEORGIA"}, {Fips13211, Fips13001})})

\* The page over tables in which the counties have results in different years
SpecCounties == InitCounties /\ [][NextPage]_vars

\* C28: in the county view, a click on the path of another county of the
\* state, one that has results in the current year, makes that county the
\* current county.
C28_CountyClickNavigates ==
  [][\A topoId \in countiesTopology :
       (/\ CountyPathClick(topoId)
        /\ mapView.level = "county"
        /\ currentLevel = "county"
        /\ KeyOfFeature(topoId) # NoCounty
        /\ KeyOfFeature(topoId) # currentCounty)
         => /\ currentLevel' = "county"
            /\ currentCounty' = KeyOfFeature(topoId)]_vars

C25_FailedLoadIsShownAndFinal ==
  /\ [](initPhase = "failed"
          => /\ mapView.by # "init"
             /\ processedYears = {}
             /\ ~rawCsvData.loaded)
  /\ [][(initPhase # "failed" /\ initPhase' = "failed") => errorShown']_vars
  /\ [][initPhase = "failed"
          => /\ initPhase' = "failed"
             /\ topology' = topology
             /\ rawCsvData' = rawCsvData]_vars

\* The topology arrived, the table did not, and the sidebar shows the error
C25_Witness ==
  /\ initPhase = "failed"
  /\ topology = "all"
  /\ errorShown

(***************************************************************************)
(* State results of unprocessed years: claim C31                           *)
(***************************************************************************)
\* Longest row table of the worlds with three election years
MaxYearRows == 2

\* Three of the year selector's options
ThreeYears == {"2016", "2020", "2024"}

\* Rows of two states in 2020 and of one of them in 2016
PoolYears ==
  {Row("2020", "GEORGIA", Fips13209, "MORGAN", REPUBLICAN, Txt2, "TOTAL"),
   Row("2020", "ALABAMA", Fips01009, "BLOUNT", DEMOCRAT, Txt1, "TOTAL"),
   Row("2016", "GEORGIA", Fips13209, "MORGAN", DEMOCRAT, Txt1, "TOTAL")}

InitYears ==
  InitOver({World(PoolYears, MaxYearRows, {"GEORGIA", "ALABAMA"}, {})}, ThreeYears)

\* The operations of the result store and its scheduler with three years
NextYears ==
  \/ LoadTopology
  \/ LoadElectionData
  \/ \E year \in ThreeYears : ProcessYearData(year)
  \/ \E year \in ThreeYears : YearSelectChange(year)
  \/ \E year \in ThreeYears, stateName \in stateNames :
       ProcessStateCountyData(year, stateName)

\* The result store under every order of requests for three years
SpecYears == InitYears /\ [][NextYears]_vars

\* What the store holds for a year: its StateResults and its CountyResults
YearResults(states, counties, year) ==
  <<MapHas(states, year), MapGetOr(states, year, <<>>),
    MapHas(counties, year), MapGetOr(counties, year, <<>>)>>

\* C31: stateResults has an entry for a year only if the year is in
\* processedYears, whatever calls of processYearData and
\* processStateCountyData were made, and the step that processes a year
\* leaves the results of every other year as they were
C31_StateResultsOnlyForProcessedYears ==
  /\ [](\A i \in 1..Len(stateResults) : stateResults[i].k \in processedYears)
  /\ [][\A y2 \in ThreeYears : \A y1 \in ThreeYears \ {y2} :
          (y2 \notin processedYears /\ y2 \in processedYears')
            => YearResults(stateResults', countyResults', y1)
                 = YearResults(stateResults, countyResults, y1)]_vars

(***************************************************************************)
(* Injective geography resolution: claim C32                               *)
(***************************************************************************)
\* Georgia with both Montgomery County (13209) and Morgan County (13211) in
\* the county topology
InitMorgan ==
  InitWith({World(PoolGeorgia, MaxGeoRows, {"GEORGIA"}, {Fips13209, Fips13211})})

\* The instance over a topology with both counties
SpecMorgan == InitMorgan /\ [][Next]_vars

\* C32: for a fixed year and state, two distinct topology county ids never
\* resolve through findCountyFips to the same storage key
C32_ResolutionInjective ==
  \A k1 \in DOMAIN countyFipsCache : \A k2 \in DOMAIN countyFipsCache :
    (/\ k1[1] = k2[1]
     /\ k1[2] = k2[2]
     /\ k1[3] # k2[3]
     /\ countyFipsCache[k1].found
     /\ countyFipsCache[k2].found)
      => countyFipsCache[k1].format # countyFipsCache[k2].format

(***************************************************************************)
(* Aggregation runs that abort: claim C33                                  *)
(***************************************************************************)
\* The value of a field whose column the table's header does not have
Undefined == <<"undefined">>

\* The forEach callback throws on row d: normalizeParty(d.party) calls
\* party.toLowerCase() before the row is tested, and candidate.toUpperCase()
\* is reached by the rows the two tests before it let through
RowThrows(d) ==
  LET votes == ParseInt(d.candidatevotes)
  IN  \/ d.party = Undefined
      \/ /\ d.candidate = Undefined
         /\ ~(\/ d.year = "year"
              \/ d.county_fips = <<>>
              \/ votes.nan \/ votes.val = 0
              \/ votes.val < 0)

\* csvData.forEach(callback) throws
ScanThrows(csvData) == \E i \in 1..Len(csvData) : RowThrows(csvData[i])

\* processYearData(year) reaches processElectionData, whose scan throws
YearScanThrows(raw, year) ==
  /\ YearRan(raw, year)
  /\ ScanThrows(SelectSeq(raw.rows, LAMBDA d : d.year = year))

\* processStateCountyData(year, stateName) reaches processStateElectionData,
\* whose scan throws
StateScanThrows(year, stateName) ==
  /\ StateRan(year, stateName)
  /\ ScanThrows(SelectSeq(rawCsvData.rows,
                          LAMBDA d : d.year = year /\ d.state = stateName))

\* A call that ended with the exception of the scan
Thrown(op, year, state) == [op |-> op, year |-> year, state |-> state, ran |-> TRUE]

\* Mutant of DoProcessYearDataThrows: the year is marked before the scan
DoProcessYearDataThrows_Marked(year) ==
  /\ yearRuns[year] < MaxRuns
  /\ yearRuns' = [yearRuns EXCEPT ![year] = @ + 1]
  /\ processedYears' = processedYears \cup {year}
  /\ lastCall' = Thrown("processYearData throws", year, "")
  /\ UNCHANGED results

\* The body of processYearData(year) when the scan throws: rawData is local
\* to processElectionData, and processedYears.add(year) is not reached
DoProcessYearDataThrows(year) ==
  /\ yearRuns[year] < MaxRuns
  /\ yearRuns' = [yearRuns EXCEPT ![year] = @ + 1]
  /\ lastCall' = Thrown("processYearData throws", year, "")
  /\ UNCHANGED <<results, processedYears>>

\* processYearData(year), called on the instance, rejects
ProcessYearDataThrows(year) ==
  /\ YearScanThrows(rawCsvData, year)
  /\ DoProcessYearDataThrows(year)
  /\ UNCHANGED <<external, navigation, renderCaches, countyFipsCache, rawCsvData,
                 currentYear, processedStateData, stateRuns>>

\* loadElectionData(), awaited by init(): the table arrives, processYearData
\* rejects, loadElectionData rethrows and the catch block of init() shows
\* the error
LoadElectionDataThrows ==
  /\ initPhase = "rows"
  /\ ~rawCsvData.loaded
  /\ YearScanThrows([loaded |-> TRUE, rows |-> csvFile], currentYear)
  /\ rawCsvData' = [loaded |-> TRUE, rows |-> csvFile]
  /\ DoProcessYearDataThrows(currentYear)
  /\ initPhase' = "failed"
  /\ ShowError
  /\ UNCHANGED <<external, location, navigationTimer, viewTimer, topology, mapView,
                 breadcrumb, renderCaches, countyFipsCache, currentYear,
                 processedStateData, stateRuns>>

\* The change listener of the year selector when processYearData rejects:
\* the catch block shows the error, the views are not updated
YearSelectChangeThrows(newYear) ==
  /\ newYear # currentYear
  /\ YearScanThrows(rawCsvData, newYear)
  /\ currentYear' = newYear
  /\ DoProcessYearDataThrows(newYear)
  /\ ShowError
  /\ UNCHANGED <<external, location, navigationTimer, viewTimer, loading, mapView,
                 breadcrumb, renderCaches, countyFipsCache, rawCsvData,
                 processedStateData, stateRuns>>

\* processStateCountyData(year, stateName), called on the instance, rejects:
\* processedStateData.set is not reached
ProcessStateCountyDataThrows(year, stateName) ==
  /\ StateScanThrows(year, stateName)
  /\ stateRuns[<<year, stateName>>] < MaxRuns
  /\ stateRuns' = [stateRuns EXCEPT ![<<year, stateName>>] = @ + 1]
  /\ lastCall' = Thrown("processStateCountyData throws", year, stateName)
  /\ UNCHANGED <<external, navigation, renderCaches, countyFipsCache, rawCsvData,
                 currentYear, results, processedYears, processedStateData, yearRuns>>

\* The operations of the result store over tables that may lack a column
NextScan ==
  \/ LoadTopology
  \/ /\ ~YearScanThrows([loaded |-> TRUE, rows |-> csvFile], currentYear)
     /\ LoadElectionData
  \/ LoadElectionDataThrows
  \/ \E year \in Years :
       ~YearScanThrows(rawCsvData, year) /\ ProcessYearData(year)
  \/ \E year \in Years : ProcessYearDataThrows(year)
  \/ \E year \in Years :
       ~YearScanThrows(rawCsvData, year) /\ YearSelectChange(year)
  \/ \E year \in Years : YearSelectChangeThrows(year)
  \/ \E year \in Years, stateName \in stateNames :
       ~StateScanThrows(year, stateName) /\ ProcessStateCountyData(year, stateName)
  \/ \E year \in Years, stateName \in stateNames :
       ProcessStateCountyDataThrows(year, stateName)

\* Tables without the party column
PoolNoPartyColumn ==
  {Row("2024", "GEORGIA", Fips13209, "MORGAN", Undefined, Txt2, "TOTAL"),
   Row("2020", "GEORGIA", Fips13209, "MORGAN", Undefined, Txt1, "TOTAL")}

\* Tables without the candidate column; the row without votes is dropped
\* before its candidate is read
PoolNoCandidateColumn ==
  {[Row("2024", "GEORGIA", Fips13209, "MORGAN", REPUBLICAN, Txt2, "TOTAL")
      EXCEPT !.candidate = Undefined],
   [Row("2020", "GEORGIA", Fips13209, "MORGAN", DEMOCRAT, <<"0">>, "TOTAL")
      EXCEPT !.candidate = Undefined]}

InitScan ==
  InitWith({World(PoolNoPartyColumn, MaxFewRows, {"GEORGIA"}, {}),
            World(PoolNoCandidateColumn, MaxFewRows, {"GEORGIA"}, {})})

\* The result store over tables whose rows make the scan throw
SpecScan == InitScan /\ [][NextScan]_vars

\* C33: a run that aborts while scanning rows leaves electionData,
\* stateResults, countyResults and both processed markers as they were, and
\* its year or (year, state) unprocessed, so that a later request runs the
\* aggregation again
C33_AbortedRunLeavesStore ==
  [][(/\ lastCall'.op \in {"processYearData throws", "processStateCountyData throws"}
      /\ (yearRuns' # yearRuns \/ stateRuns' # stateRuns))
       => /\ results' = results
          /\ processedYears' = processedYears
          /\ processedStateData' = processedStateData
          /\ lastCall'.op = "processYearData throws"
               => /\ lastCall'.year \notin processedYears'
                  /\ YearRan(rawCsvData', lastCall'.year)
          /\ lastCall'.op = "processStateCountyData throws"
               => /\ <<lastCall'.year, lastCall'.state>> \notin processedStateData'
                  /\ rawCsvData'.loaded]_vars

\* The aggregation of 2024 aborted, was requested again and ran again
C33_Witness ==
  /\ lastCall = Thrown("processYearData throws", "2024", "")
  /\ yearRuns["2024"] = 2
  /\ "2024" \notin processedYears

(***************************************************************************)
(* Frame of the state-scoped aggregation: claim C34                        *)
(***************************************************************************)
\* C34: the run of processStateCountyData(y, S) leaves every StateResult and
\* processedYears unchanged, and leaves unchanged every CountyResult whose
\* state is not S or whose year is not y
C34_StateRunChangesOnlyItsCounties ==
  [][\A y \in Years : \A S \in stateNames :
       (<<y, S>> \notin processedStateData /\ <<y, S>> \in processedStateData')
         => /\ stateResults' = stateResults
            /\ processedYears' = processedYears
            /\ \A n \in 1..Len(countyResults) :
                 \A i \in 1..Len(countyResults[n].v) :
                   LET year  == countyResults[n].k
                       entry == countyResults[n].v[i]
                   IN  (entry.v.state # S \/ year # y)
                         => /\ MapHas(countyResults', year)
                            /\ MapHas(MapGet(countyResults', year), entry.k)
                            /\ MapGet(MapGet(countyResults', year), entry.k)
                                 = entry.v]_vars

(***************************************************************************)
(* The processing state moves forward: claim C35                           *)
(***************************************************************************)
\* C35: a year or (year, state) that is marked processed stays marked under
\* every operation, its aggregation is not run again, and its results stay
\* stored: the StateResults of the year, the CountyResults of the state in
\* the year
C35_ProcessedStaysProcessed ==
  [][/\ processedYears \subseteq processedYears'
     /\ processedStateData \subseteq processedStateData'
     /\ \A y \in processedYears :
          /\ yearRuns'[y] = yearRuns[y]
          /\ MapHas(stateResults, y)
               => /\ MapHas(stateResults', y)
                  /\ MapGet(stateResults', y) = MapGet(stateResults, y)
     /\ \A key \in processedStateData :
          /\ stateRuns'[key] = stateRuns[key]
          /\ LET before == MapGetOr(countyResults, key[1], <<>>)
                 after  == MapGetOr(countyResults', key[1], <<>>)
             IN  \A i \in 1..Len(before) :
                   before[i].v.state = key[2]
                     => /\ MapHas(after, before[i].k)
                        /\ MapGet(after, before[i].k) = before[i].v]_vars

(***************************************************************************)
(* Rows without votes: claim C36                                           *)
(***************************************************************************)
\* Rows with a vote count of zero next to rows with votes: a party without
\* votes in a county that has votes, and a county without any vote
PoolZeroVotes ==
  {GoodRow,
   Row("2024", "GEORGIA", Fips13209, "MONTGOMERY", DEMOCRAT, <<"0">>, "TOTAL"),
   Row("2024", "GEORGIA", Fips13209, "MONTGOMERY", DEMOCRAT, Txt1, "TOTAL"),
   Row("2024", "GEORGIA", Fips13211, "MORGAN", REPUBLICAN, <<"0">>, "TOTAL")}

InitZeroVotes == InitWith({World(PoolZeroVotes, MaxFewRows, {"GEORGIA"}, {})})

\* The result store over tables with rows without votes
SpecZeroVotes == InitZeroVotes /\ [][NextStore]_vars

\* C36: in every stored CountyResult the votes map is non-empty, every party
\* it lists has at least one vote, and the winner is a listed party with the
\* largest count, never UNKNOWN
C36_StoredTalliesArePositive ==
  \A y \in 1..Len(countyResults) : \A i \in 1..Len(countyResults[y].v) :
    LET result == countyResults[y].v[i].v
    IN  /\ result.votes # <<>>
        /\ \A j \in 1..Len(result.votes) : result.votes[j].v >= 1
        /\ result.winner # UNKNOWN
        /\ \E j \in 1..Len(result.votes) :
             /\ result.votes[j].k = result.winner
             /\ result.votes[j].v = MaxOf(result.votes)

\* The table has a row without votes for a party of county 13209 and a row
\* with votes for another; the stored tally lists the second party alone
C36_Witness ==
  /\ \E i \in 1..Len(rawCsvData.rows) :
       /\ rawCsvData.rows[i].candidatevotes = <<"0">>
       /\ rawCsvData.rows[i].county_fips = Fips13209
  /\ MapHas(countyResults, "2024")
  /\ MapHas(MapGet(countyResults, "2024"), Fips13209)
  /\ MapGet(MapGet(countyResults, "2024"), Fips13209).votes
       = <<[k |-> REPUBLICAN, v |-> 2]>>

(***************************************************************************)
(* Navigation state invariant: claim C37                                   *)
(***************************************************************************)
\* drillUp() at the national level: nothing changes
DrillUpAtNational ==
  /\ currentLevel = "national"
  /\ lastCall' = Navigation("drillUp", TRUE)
  /\ UNCHANGED <<external, navigation, renderCaches, countyFipsCache, rawCsvData,
                 currentYear, results, processedYears, processedStateData,
                 yearRuns, stateRuns>>

\* The page with clicks at any moment: a click may reach a path the map
\* still shows after a navigation left its view, before the frame that
\* draws the new one
NextClicks ==
  \/ LoadTopology
  \/ LoadElectionData
  \/ \E year \in Years : YearSelectChange(year)
  \/ NavigateToNational
  \/ BreadcrumbStateClick
  \/ BreadcrumbStatewideClick
  \/ DrillUp
  \/ DrillUpAtNational
  \/ \E stateName \in stateNames : NationalViewStateClick(stateName)
  \/ StateViewClick
  \/ \E topoId \in countiesTopology : CountyPathClick(topoId)
  \/ NavigationTimerFires
  \/ DebounceTimerFires

\* A row of one county of Georgia in 2024
PoolClicks == {Row("2024", "GEORGIA", Fips13001, "APPLING", DEMOCRAT, Txt1, "TOTAL")}

InitClicks == InitWith({World(PoolClicks, MaxPageRows, {"GEORGIA"}, {Fips13001})})

SpecClicks == InitClicks /\ [][NextClicks]_vars

\* C37: in every reachable state currentLevel is one of national, state,
\* statewide, county; currentLevel is national exactly when currentState is
\* null; and currentCounty is non-null exactly when currentLevel is county.
C37_NavigationStateInvariant ==
  /\ currentLevel \in {"national", "state", "statewide", "county"}
  /\ currentLevel = "national" <=> currentState = Null
  /\ currentCounty # NoCounty <=> currentLevel = "county"

(***************************************************************************)
(* Drilling up: claim C38                                                  *)
(***************************************************************************)
\* The height of a level above the national level
LevelRank(level) ==
  CASE level = "national" -> 0
    [] level = "state" -> 1
    [] level = "statewide" -> 2
    [] level = "county" -> 3

\* C38: drillUp moves exactly one level up and keeps the state: county to
\* statewide and statewide to state with currentState as it was, state to
\* national, and at national it changes nothing; a level is at most three
\* levels above national, so repeated drillUp reaches national after at most
\* three steps.
C38_DrillUpMovesOneLevelUp ==
  /\ [](LevelRank(currentLevel) \in 0..3)
  /\ [][/\ DrillUp =>
            /\ LevelRank(currentLevel') = LevelRank(currentLevel) - 1
            /\ currentLevel' # "national" => currentState' = currentState
            /\ currentLevel' # "county"
            /\ currentCounty' = NoCounty
        /\ DrillUpAtNational =>
            UNCHANGED <<external, navigation, renderCaches, countyFipsCache,
                        rawCsvData, currentYear, results, processedYears,
                        processedStateData, yearRuns, stateRuns>>]_vars

\* The statewide level was reached from the county level, whose view the
\* page still shows, and the state is the one the county view had
C38_Witness ==
  /\ lastCall = Navigation("navigateToStatewide", FALSE)
  /\ currentLevel = "statewide"
  /\ currentState = "GEORGIA"
  /\ currentCounty = NoCounty
  /\ breadcrumb = <<"county", "GEORGIA", Fips13001>>

(***************************************************************************)
(* Rows without a mode: claim C39                                          *)
(***************************************************************************)
\* Rows of one Georgia county in 2024: two without a mode, one under a
\* component mode, one under "TOTAL" and one under "TOTAL VOTES"
PoolBlankModes ==
  {Row("2024", "GEORGIA", Fips13209, "MORGAN", p[2], p[3], p[1]) :
     p \in {<<"", REPUBLICAN, Txt2>>,
            <<"", DEMOCRAT, Txt1>>,
            <<"ELECTION DAY", REPUBLICAN, Txt1>>,
            <<"TOTAL", DEMOCRAT, Txt2>>,
            <<"TOTAL VOTES", REPUBLICAN, Txt3>>}}

\* Rows of a table without a mode column
PoolNoModeColumn ==
  {Row("2024", "GEORGIA", Fips13209, "MORGAN", REPUBLICAN, Txt2, MissingMode),
   Row("2024", "GEORGIA", Fips13209, "MORGAN", DEMOCRAT, Txt1, MissingMode)}

InitBlankModes ==
  InitWith({World(PoolBlankModes, MaxFewRows, {"GEORGIA"}, {}),
            World(PoolNoModeColumn, MaxFewRows, {"GEORGIA"}, {})})

\* The result store over tables with rows that have no mode
SpecBlankModes == InitBlankModes /\ [][NextStore]_vars

\* The mode field of the row is empty or missing
BlankMode(d) == d.mode = "" \/ d.mode = MissingMode

\* The loaded rows the row checks accept for the county-year
\* t = <<year, state, county, candidates>>
CountyRows(t) ==
  {i \in 1..Len(rawCsvData.rows) :
     /\ rawCsvData.rows[i].year = t[1]
     /\ rawCsvData.rows[i].state = t[2]
     /\ ~SkipRow(rawCsvData.rows[i])
     /\ RowCounty(rawCsvData.rows[i]) = t[3]}

\* The parties of the rows picked
RowParties(picked) == {normalizeParty(rawCsvData.rows[i].party) : i \in picked}

\* The votes of the party over the rows picked
RowVotes(picked, party) ==
  SumOver([i \in 1..Len(rawCsvData.rows) |->
             IF i \in picked /\ normalizeParty(rawCsvData.rows[i].party) = party
             THEN ParseInt(rawCsvData.rows[i].candidatevotes).val
             ELSE 0],
          Len(rawCsvData.rows), 1)

\* The final tally of t is, party by party, the votes of the rows picked
TallyIsRows(t, picked) ==
  /\ Parties(TallyOf(t[4])) = RowParties(picked)
  /\ \A party \in RowParties(picked) :
       VotesOf(TallyOf(t[4]), party) = RowVotes(picked, party)

\* C39 as stated: a row whose mode field is empty or missing is accumulated
\* under mode "TOTAL"; for a county-year without a "TOTAL VOTES" mode, the
\* votes of such rows form the whole final tally and the county's
\* component-mode rows are ignored.
C39_BlankModeRowsAreTheTally ==
  \A t \in StoredCounties :
    LET modes == ModesOf(t[1], t[2], t[3])
        blank == {i \in CountyRows(t) : BlankMode(rawCsvData.rows[i])}
    IN  blank # {}
          => /\ MapHas(modes, "TOTAL")
             /\ ~MapHas(modes, "") /\ ~MapHas(modes, MissingMode)
             /\ ~MapHas(modes, "TOTAL VOTES") => TallyIsRows(t, blank)

\* C39, amended: a row whose mode field is empty or missing is accumulated
\* under mode "TOTAL"; for a county-year without a "TOTAL VOTES" mode, the
\* votes of such rows, together with those of the county's rows whose mode
\* is "TOTAL", form the whole final tally and the county's component-mode
\* rows are ignored.
C39_BlankAndTotalRowsAreTheTally ==
  \A t \in StoredCounties :
    LET modes == ModesOf(t[1], t[2], t[3])
        blank == {i \in CountyRows(t) : BlankMode(rawCsvData.rows[i])}
        total == {i \in CountyRows(t) : rawCsvData.rows[i].mode = "TOTAL"}
    IN  blank # {}
          => /\ MapHas(modes, "TOTAL")
             /\ ~MapHas(modes, "") /\ ~MapHas(modes, MissingMode)
             /\ ~MapHas(modes, "TOTAL VOTES") => TallyIsRows(t, blank \cup total)

\* A row without a mode, REPUBLICAN 2, next to an ELECTION DAY row,
\* REPUBLICAN 1: the stored tally is REPUBLICAN 2
C39_Witness ==
  \E t \in StoredCounties :
    /\ Len(rawCsvData.rows) = 2
    /\ \E i, j \in CountyRows(t) :
         /\ rawCsvData.rows[i].mode = ""
         /\ rawCsvData.rows[j].mode = "ELECTION DAY"
    /\ TallyOf(t[4]) = <<[k |-> REPUBLICAN, v |-> 2]>>
    /\ MapHas(MapGetOr(countyResults, t[1], <<>>), t[3])

====
